---- MODULE Spec2Model ----
(***************************************************************************)
(* Model of the hypha hub's connection, routing and handshake fabric.      *)
(*                                                                         *)
(* Python strings are sequences of atoms: "w/b" is <<"w", "/", "b">>, so   *)
(* that `"/" in s`, s.split("/")[0] and f-string concatenation are         *)
(* computed and not assumed.  The 18 characters `workspace-manager-` are   *)
(* one atom.  A frame is a sequence of msgpack tokens: a map-header token  *)
(* followed by 2n key/value tokens, followed by the opaque tail.           *)
(***************************************************************************)
EXTENDS Integers, Sequences, FiniteSets, TLC

\* ------------------------------------------------------------------ bounds
MaxPublished == 1
MaxOnMessage == 2
MaxDisconnect == 2

\* ----------------------------------------------------------------- strings
None == <<"#None">>
NoHandler == "none"

Contains(s, ch) == \E i \in 1..Len(s) : s[i] = ch

ContainsSub(s, sub) ==
    \E i \in 0..(Len(s) - Len(sub)) : SubSeq(s, i + 1, i + Len(sub)) = sub

\* s.split("/")[0]
SplitHead(s) ==
    IF Contains(s, "/")
    THEN LET i == CHOOSE j \in 1..Len(s) :
                    s[j] = "/" /\ \A k \in 1..(j - 1) : s[k] # "/"
         IN SubSeq(s, 1, i - 1)
    ELSE s

\* f"{a}/{b}"
Slash(a, b) == a \o <<"/">> \o b

\* f"{target}:msg"
MsgChannel(target) == target \o <<":msg">>

\* -------------------------------------------------------- msgpack tokens
MapTok(n) == [k |-> "map", n |-> n, v |-> <<>>]
StrTok(s) == [k |-> "str", n |-> 0, v |-> s]
BinTok(s) == [k |-> "bin", n |-> 0, v |-> s]
NilTok == [k |-> "nil", n |-> 0, v |-> <<>>]

\* UserInfo.model_dump(): the snapshot dict, kept as one token
UserTok(u) ==
    [k |-> "usr", n |-> 0,
     v |-> u.id \o <<IF u.is_anonymous THEN "anonymous" ELSE "authenticated">>]

\* dict[key] = val: an existing key keeps its position, a new key is appended
DictSet(d, key, val) ==
    IF \E i \in 1..Len(d) : d[i][1] = key
    THEN [i \in 1..Len(d) |-> IF d[i][1] = key THEN <<key, val>> ELSE d[i]]
    ELSE Append(d, <<key, val>>)

DictHas(d, key) == \E i \in 1..Len(d) : d[i][1] = key

\* dict.get(key): the value token, or NilTok for Python's None
DictGet(d, key) ==
    IF DictHas(d, key)
    THEN d[CHOOSE i \in 1..Len(d) : d[i][1] = key][2]
    ELSE NilTok

RECURSIVE DictFromTokens(_, _)
DictFromTokens(toks, d) ==
    IF Len(toks) < 2 THEN d
    ELSE DictFromTokens(SubSeq(toks, 3, Len(toks)), DictSet(d, toks[1], toks[2]))

RECURSIVE TokensOfDict(_)
TokensOfDict(d) ==
    IF d = <<>> THEN <<>>
    ELSE <<d[1][1], d[1][2]>> \o TokensOfDict(Tail(d))

\* msgpack.packb(message)
Packb(message) == <<MapTok(Len(message))>> \o TokensOfDict(message)

\* unpacker.unpack() followed by unpacker.tell(): the first object of the
\* stream and the offset just after it
Unpack(data) ==
    IF Len(data) = 0
    THEN [ok |-> FALSE, isdict |-> FALSE, message |-> <<>>, pos |-> 0]
    ELSE IF data[1].k = "map"
         THEN IF Len(data) >= 1 + 2 * data[1].n
              THEN [ok |-> TRUE, isdict |-> TRUE,
                    message |-> DictFromTokens(SubSeq(data, 2, 1 + 2 * data[1].n), <<>>),
                    pos |-> 1 + 2 * data[1].n]
              ELSE [ok |-> FALSE, isdict |-> FALSE, message |-> <<>>, pos |-> 0]
         ELSE [ok |-> TRUE, isdict |-> FALSE, message |-> <<>>, pos |-> 1]

\* mutant: data[pos + 1:], one byte of the tail lost
SliceFromSkipsOne(data, pos) == SubSeq(data, pos + 2, Len(data))

\* data[pos:]
SliceFrom(data, pos) == SubSeq(data, pos + 1, Len(data))


\* ------------------------------------------------------------ frame inputs
RawTok(b) == [k |-> "raw", n |-> b, v |-> <<>>]
Key(s) == StrTok(<<s>>)

RootUser == [id |-> <<"root">>, is_anonymous |-> FALSE, roles |-> {}, scopes |-> {}]

Targets ==
    { <<"b">>,
      <<"v", "/", "b">>,
      <<"*", "/", "workspace-manager-", "X">>,
      <<"workspace-manager-", "X">> }

\* the bytes 0xFF 0xAA
ByteTail == <<RawTok(255), RawTok(170)>>

\* a tail that is itself a msgpack map (an RPC payload naming a target)
MapTail == <<MapTok(1), StrTok(<<"to">>), StrTok(<<"v", "/", "z">>)>>

\* a header holding only `to`
PlainHeader(t) == << <<Key("to"), StrTok(t)>> >>

\* a header with an unknown key and sender-chosen from / ws / user
SpoofedHeader(t) ==
    << <<Key("type"), StrTok(<<"method">>)>>,
       <<Key("from"), StrTok(<<"v", "/", "z">>)>>,
       <<Key("ws"), StrTok(<<"v">>)>>,
       <<Key("user"), UserTok(RootUser)>>,
       <<Key("to"), StrTok(t)>> >>

GoodFrames ==
    { Packb(PlainHeader(t)) \o ByteTail : t \in {<<"b">>, <<"workspace-manager-", "X">>} }
    \cup { Packb(SpoofedHeader(t)) \o MapTail : t \in Targets \ {<<"workspace-manager-", "X">>} }

BadFrames ==
    { <<>>,                                                   \* no object at all
      <<MapTok(2), Key("to")>>,                               \* truncated map
      <<StrTok(<<"b">>)>>,                                    \* not a map
      Packb(<< <<Key("type"), StrTok(<<"method">>)>> >>),     \* no `to`
      Packb(<< <<Key("to"), BinTok(<<"b">>)>> >>) }           \* `to` is bytes

Frames == GoodFrames \cup BadFrames

\* ------------------------------------------------- event bus (hypha.utils)
\* callbacks: channel -> sequence of handlers, in registration order
BusOn(cb, ch, h) ==
    IF ch \in DOMAIN cb
    THEN [cb EXCEPT ![ch] = Append(@, h)]
    ELSE [x \in DOMAIN cb \cup {ch} |-> IF x = ch THEN <<h>> ELSE cb[x]]

RemoveFirst(seq, h) ==
    IF \E i \in 1..Len(seq) : seq[i] = h
    THEN LET i == CHOOSE j \in 1..Len(seq) :
                    seq[j] = h /\ \A k \in 1..(j - 1) : seq[k] # h
         IN SubSeq(seq, 1, i - 1) \o SubSeq(seq, i + 1, Len(seq))
    ELSE seq

\* off(event, handler): removes one registration of handler
BusOff(cb, ch, h) ==
    IF ch \notin DOMAIN cb THEN cb
    ELSE LET rest == RemoveFirst(cb[ch], h)
         IN IF rest = <<>>
            THEN [x \in DOMAIN cb \ {ch} |-> cb[x]]
            ELSE [cb EXCEPT ![ch] = rest]

Registrations(cb, ch) == IF ch \in DOMAIN cb THEN Len(cb[ch]) ELSE 0

Subscribed(cb, ch, h) == ch \in DOMAIN cb /\ \E i \in 1..Len(cb[ch]) : cb[ch][i] = h

\* a registered key ending in `*` stands for any trailing path component
WildcardMatch(key, event) ==
    /\ Len(key) >= 1 /\ key[Len(key)] = "*"
    /\ Len(event) >= Len(key)
    /\ SubSeq(event, 1, Len(key) - 1) = SubSeq(key, 1, Len(key) - 1)
    /\ ~Contains(SubSeq(event, Len(key), Len(event)), "/")

\* EventBus.emit(event, data): the handlers registered under `event`, and
\* those registered under a wildcard key that `event` matches
Dispatch(cb, event) ==
    UNION { {cb[key][i] : i \in 1..Len(cb[key])} :
                key \in {k \in DOMAIN cb : k = event \/ WildcardMatch(k, event)} }

\* RedisEventBus.emit: bytes go to the broker channel "event:" + "b:" + name
BrokerChannel(event_name) == <<"event:", "b:">> \o event_name

\* RedisEventBus._subscribe_redis: event_type = channel[8:] for "event:b:..."
EventType(channel) ==
    IF Len(channel) >= 2 /\ channel[1] = "event:" /\ channel[2] = "b:"
    THEN SubSeq(channel, 3, Len(channel))
    ELSE <<>>

\* the handlers a frame emitted on `event_name` reaches through the broker
Receivers(cb, event_name) == Dispatch(cb, EventType(BrokerChannel(event_name)))

\* ------------------------------------------------------ RedisRPCConnection
NoConn ==
    [made |-> FALSE, workspace |-> None, client_id |-> None, user_info |-> NilTok,
     stop |-> FALSE, handle_connect |-> FALSE, disconnect_handler |-> NoHandler,
     handle_message |-> NoHandler]

\* __init__: assert workspace and "/" not in client_id
ConnInitOk(ws, cid) == ws # <<>> /\ ws # None /\ ~Contains(cid, "/")

ConnInit(ws, cid, u) ==
    [made |-> TRUE, workspace |-> ws, client_id |-> cid, user_info |-> UserTok(u),
     stop |-> FALSE, handle_connect |-> FALSE, disconnect_handler |-> NoHandler,
     handle_message |-> NoHandler]

DirectChannel(conn) == MsgChannel(Slash(conn.workspace, conn.client_id))
BroadcastChannel(conn) == MsgChannel(Slash(conn.workspace, <<"*">>))

\* on_message(handler): the connection and the bus after the call
on_message(conn, cb, h) ==
    [conn |-> [conn EXCEPT !.handle_message = h],
     cb |-> BusOn(BusOn(cb, DirectChannel(conn), h), BroadcastChannel(conn), h),
     task |-> conn.handle_connect]

\* mutant: a `from` sent by the client is kept (setdefault instead of update)
RewriteKeepsFrom(conn, message, target_id) ==
    LET sender == DictGet(message, Key("from")) IN
    DictSet(
      DictSet(
        DictSet(
          DictSet(message, Key("ws"),
                  StrTok(IF conn.workspace = <<"*">>
                         THEN SplitHead(target_id) ELSE conn.workspace)),
          Key("to"), StrTok(target_id)),
        Key("from"), IF DictHas(message, Key("from")) THEN sender
                     ELSE StrTok(Slash(conn.workspace, conn.client_id))),
      Key("user"), conn.user_info)

\* the header rewrite of emit_message (message.update)
Rewrite(conn, message, target_id) ==
    DictSet(
      DictSet(
        DictSet(
          DictSet(message, Key("ws"),
                  StrTok(IF conn.workspace = <<"*">>
                         THEN SplitHead(target_id) ELSE conn.workspace)),
          Key("to"), StrTok(target_id)),
        Key("from"), StrTok(Slash(conn.workspace, conn.client_id))),
      Key("user"), conn.user_info)

Rejected(why) == [result |-> why, channel |-> <<>>, packed |-> <<>>]

\* emit_message(data): the outcome, and the channel and frame handed to
\* event_bus.emit when the outcome is "ok"
emit_message(conn, data) ==
    IF conn.stop THEN Rejected("closed")
    ELSE LET un == Unpack(data) IN
         IF ~un.ok THEN Rejected("unpack_error")
         ELSE IF ~un.isdict THEN Rejected("type_error")
         ELSE LET to == DictGet(un.message, Key("to")) IN
              IF to.k # "str" THEN Rejected("type_error")
              ELSE IF ~Contains(to.v, "/")
                      /\ ContainsSub(to.v, <<"/", "workspace-manager-">>)
                   THEN Rejected("invalid_target")
                   ELSE LET target_id == IF Contains(to.v, "/") THEN to.v
                                         ELSE Slash(conn.workspace, to.v)
                        IN [result |-> "ok",
                            channel |-> MsgChannel(target_id),
                            packed |-> Packb(Rewrite(conn, un.message, target_id))
                                         \o SliceFrom(data, un.pos)]

\* mutant: the closed flag is not set
disconnectKeepsOpen(conn, cb) ==
    [conn |-> [conn EXCEPT !.handle_message = NoHandler],
     cb |-> IF conn.handle_message # NoHandler
            THEN BusOff(BusOff(cb, DirectChannel(conn), conn.handle_message),
                        BroadcastChannel(conn), conn.handle_message)
            ELSE cb,
     called |-> conn.disconnect_handler # NoHandler]

\* disconnect(reason): the connection and the bus after the call, and
\* whether the disconnection handler was awaited
disconnect(conn, cb) ==
    [conn |-> [conn EXCEPT !.stop = TRUE, !.handle_message = NoHandler],
     cb |-> IF conn.handle_message # NoHandler
            THEN BusOff(BusOff(cb, DirectChannel(conn), conn.handle_message),
                        BroadcastChannel(conn), conn.handle_message)
            ELSE cb,
     called |-> conn.disconnect_handler # NoHandler]


\* ------------------------------------------------------------------- state
Hs == {"hs1", "hs2"}
ConnIds == Hs \cup {"rpc"}
Handlers == {"h1", "h2"}

VARIABLES
    conns,              \* ConnIds -> RedisRPCConnection object (or NoConn)
    callbacks,          \* redis event bus: channel -> handlers
    published,          \* frames handed to event_bus.emit: [channel, data]
    disconnected_calls, \* ConnIds -> times the disconnection handler ran
    connect_tasks,      \* ConnIds -> connect-handler tasks created
    lastCall,           \* the last Connection call and its outcome
    pc,                 \* Hs -> position of the handshake coroutine
    req,                \* Hs -> the first message of the handshake
    user,               \* Hs -> user_info of the handshake
    wsName,             \* Hs -> the handshake's `workspace` local
    transport,          \* Hs -> websocket: open, frames sent, close code
    workspaces,         \* store: workspace name -> workspace info
    clients,            \* store: registered <<workspace, client_id>>
    serverStop,         \* WebsocketServer._stop
    anonCount,          \* shortuuid ids handed out
    probe,              \* Hs -> what check_client's ping returned
    deleted,            \* Hs -> handle_disconnection's delete_client: calls, raised
    ready,              \* RedisEventBus._ready: the readiness future
    subscriber,         \* RedisEventBus._subscribe_redis: position of the task
    local_callbacks,    \* RedisEventBus._local_event_bus: event -> handlers
    broker,             \* messages on the broker, not yet read by the subscriber
    invoked,            \* handler invocations so far: [handler, via]
    once_calls,         \* once()/once_local() handler -> times it was invoked
    busLast,            \* the last bus operation and what it did
    corePc,             \* CoreInterface.init: position of the coroutine
    public_services,    \* CoreInterface._public_services
    registered,         \* services registered in the public workspace
    coreReady,          \* CoreInterface._ready
    coreLast,           \* the last register_public_service call and its outcome
    cl_websocket,       \* WebsocketRPCConnection._websocket: 0 for None, or a socket
    cl_sockets,         \* the websockets connect() returned, each with its listener
    cl_emit,            \* emit_message calls: position of each coroutine
    cl_disconnected     \* disconnect() has been called

connVars == <<conns, callbacks, published, disconnected_calls, connect_tasks,
              lastCall>>
hubVars == <<pc, req, user, wsName, transport, workspaces, clients, serverStop,
             anonCount, probe, deleted>>
busVars == <<ready, subscriber, local_callbacks, broker, invoked, once_calls, busLast>>
coreVars == <<corePc, public_services, registered, coreReady, coreLast>>
clientVars == <<cl_websocket, cl_sockets, cl_emit, cl_disconnected>>
otherVars == <<busVars, coreVars, clientVars>>
vars == <<connVars, hubVars, otherVars>>

Call(op, c, data, result) == [op |-> op, conn |-> c, data |-> data, result |-> result]

\* ---------------------------------------- Connection calls as state changes
DoConstruct(c, ws, cid, u) ==
    /\ conns' = [conns EXCEPT ![c] = ConnInit(ws, cid, u)]
    /\ UNCHANGED <<callbacks, published, disconnected_calls, connect_tasks>>

DoOnDisconnected(c, h) ==
    /\ conns' = [conns EXCEPT ![c].disconnect_handler = h]
    /\ lastCall' = Call("on_disconnected", c, <<>>, "ok")
    /\ UNCHANGED <<callbacks, published, disconnected_calls, connect_tasks>>

DoOnMessage(c, h) ==
    LET r == on_message(conns[c], callbacks, h) IN
    /\ conns' = [conns EXCEPT ![c] = r.conn]
    /\ callbacks' = r.cb
    /\ connect_tasks' = [connect_tasks EXCEPT ![c] = IF r.task THEN @ + 1 ELSE @]
    /\ UNCHANGED <<published, disconnected_calls>>

\* emit_message, with event_bus.emit appending to the broker's log
DoEmitMessage(c, data) ==
    LET r == emit_message(conns[c], data) IN
    /\ published' = IF r.result = "ok"
                    THEN Append(published, [channel |-> r.channel, data |-> r.packed])
                    ELSE published
    /\ lastCall' = Call("emit_message", c, data, r.result)
    /\ UNCHANGED <<conns, callbacks, disconnected_calls, connect_tasks>>

DoDisconnect(c) ==
    LET r == disconnect(conns[c], callbacks) IN
    /\ conns' = [conns EXCEPT ![c] = r.conn]
    /\ callbacks' = r.cb
    /\ disconnected_calls' =
           [disconnected_calls EXCEPT ![c] = IF r.called THEN @ + 1 ELSE @]
    /\ UNCHANGED <<published, connect_tasks>>

\* ------------------------------------- an in-process Connection (create_rpc)
RpcWorkspaces == { <<"w">>, <<"*">> }

RpcCreate ==
    /\ ~conns["rpc"].made
    /\ \E ws \in RpcWorkspaces :
          /\ ConnInitOk(ws, <<"a">>)
          /\ DoConstruct("rpc", ws, <<"a">>, [RootUser EXCEPT !.id = <<"ua">>])
    /\ lastCall' = Call("init", "rpc", <<>>, "ok")
    /\ UNCHANGED <<hubVars, otherVars>>

RpcOnDisconnected ==
    /\ conns["rpc"].made
    /\ DoOnDisconnected("rpc", "h1")
    /\ UNCHANGED <<hubVars, otherVars>>

RpcOnMessage ==
    /\ conns["rpc"].made
    /\ Registrations(callbacks, DirectChannel(conns["rpc"])) < MaxOnMessage
    /\ conns["rpc"].handle_connect => connect_tasks["rpc"] < MaxOnMessage
    /\ \E h \in Handlers : DoOnMessage("rpc", h)
    /\ lastCall' = Call("on_message", "rpc", <<>>, "ok")
    /\ UNCHANGED <<hubVars, otherVars>>

RpcEmitMessage ==
    /\ conns["rpc"].made
    /\ \E data \in Frames :
          /\ emit_message(conns["rpc"], data).result = "ok"
                => Len(published) < MaxPublished
          /\ DoEmitMessage("rpc", data)
    /\ UNCHANGED <<hubVars, otherVars>>

RpcDisconnect ==
    /\ conns["rpc"].made
    /\ disconnected_calls["rpc"] < MaxDisconnect
    /\ DoDisconnect("rpc")
    /\ lastCall' = Call("disconnect", "rpc", <<>>, "ok")
    /\ UNCHANGED <<hubVars, otherVars>>

\* ---------------------------------------------------- users and tokens
NoUser == [id |-> None, is_anonymous |-> FALSE, roles |-> {}, scopes |-> {}]

\* UserInfo(id=shortuuid.uuid(), is_anonymous=True, roles=[], scopes=[])
AnonIds == << <<"u-1">>, <<"u-2">> >>
AnonymousUser(n) ==
    [id |-> AnonIds[n], is_anonymous |-> TRUE, roles |-> {}, scopes |-> {}]

UserA == [id |-> <<"uA">>, is_anonymous |-> FALSE, roles |-> {}, scopes |-> {}]
UserT ==
    [id |-> <<"uT">>, is_anonymous |-> FALSE, roles |-> {"temporary-test-user"},
     scopes |-> {}]

\* auth.parse_token: the user a bearer token carries; other tokens raise
ValidTokens == { <<"tokA">>, <<"tokT">>, <<"tokRoot">> }
parse_token(t) ==
    IF t = <<"tokA">> THEN UserA
    ELSE IF t = <<"tokT">> THEN UserT
    ELSE RootUser

\* auth.generate_reconnection_token / parse_reconnection_token: an opaque
\* bearer of (user, workspace, client_id)
NoRToken == [present |-> FALSE, valid |-> FALSE, user |-> NoUser, ws |-> None, cid |-> None]
generate_reconnection_token(u, ws, cid) ==
    [present |-> TRUE, valid |-> TRUE, user |-> u, ws |-> ws, cid |-> cid]
ForgedRToken == [generate_reconnection_token(UserA, <<"uA">>, <<"k">>) EXCEPT !.valid = FALSE]

\* ------------------------------------------------------ handshake inputs
NoRequest ==
    [legacy |-> FALSE, json |-> TRUE, token |-> None, reconnection_token |-> NoRToken,
     workspace |-> None, client_id |-> None]

FirstMessage(token, ws, cid) ==
    [NoRequest EXCEPT !.token = token, !.workspace = ws, !.client_id = cid]

StaticRequests ==
    { FirstMessage(None, None, <<"k">>),
      FirstMessage(None, <<"test">>, <<"k">>),
      FirstMessage(None, <<"uA">>, <<"k">>),
      FirstMessage(None, <<"u-1">>, <<"k">>),
      FirstMessage(<<"tokA">>, None, <<"k">>),
      FirstMessage(<<"tokA">>, None, <<"j">>),
      FirstMessage(<<"tokA">>, <<"public">>, <<"k">>),
      FirstMessage(<<"tokA">>, <<"*">>, <<"k">>),
      FirstMessage(<<"tokA">>, None, <<"a", "/", "b">>),
      FirstMessage(<<"tokT">>, None, <<"k">>),
      FirstMessage(<<"tokRoot">>, None, <<"k">>),
      FirstMessage(<<"bad">>, None, <<"k">>),
      FirstMessage(<<"tokA">>, None, None),
      [FirstMessage(<<"tokA">>, <<"uA">>, <<"k">>) EXCEPT !.legacy = TRUE],
      [NoRequest EXCEPT !.json = FALSE],
      [FirstMessage(None, None, <<"k">>) EXCEPT !.reconnection_token = ForgedRToken] }

\* first messages that present a reconnection token the hub has minted
ReconnectRequests(minted) ==
    { [FirstMessage(None, ws, cid) EXCEPT !.reconnection_token = t] :
          t \in minted, ws \in {None, <<"test">>}, cid \in {None, <<"k">>, <<"j">>} }
    \cup { [FirstMessage(None, t.ws, t.cid) EXCEPT !.reconnection_token = t] :
               t \in minted }

\* ------------------------------------------------------------ error texts
ErrorPrefix == <<"Error handling WebSocket connection: ">>
AuthPrefix == <<"Authentication error: ">>
MissingClientId == <<"Missing query parameters: client_id">>
FailedToDecode == <<"Failed to decode authentication information">>
PermissionDenied(ws) == <<"Permission denied for workspace: ">> \o ws
OwnWorkspaceOnly ==
    <<"User can only connect to a pre-existing workspace or their own workspace">>
NoDynamicWorkspace == <<"Dynamic workspace is not allowed for this endpoint">>
ClientActive(ws, cid) == <<"Client already exists and is active: ">> \o Slash(ws, cid)

WS_1000_NORMAL_CLOSURE == 1000
WS_1003_UNSUPPORTED_DATA == 1003
WS_1008_POLICY_VIOLATION == 1008
WS_1011_INTERNAL_ERROR == 1011

\* ------------------------------------------------------------------ store
PublicWorkspace ==
    [persistent |-> TRUE, owners |-> << <<"root">> >>, read_only |-> TRUE,
     visibility |-> "public"]

workspace_exists(wss, name) == name \in DOMAIN wss

\* register_workspace(spec) with overwrite=False
register_workspace(wss, name, info) ==
    [n \in DOMAIN wss \cup {name} |-> IF n = name THEN info ELSE wss[n]]

\* check_permission(user, workspace): owner, scope, public visibility or the
\* user's own workspace; an anonymous user passes by the last clause only
check_permission(u, ws, wss) ==
    \/ u.id = ws
    \/ /\ ~u.is_anonymous
       /\ \/ \E i \in 1..Len(wss[ws].owners) : wss[ws].owners[i] = u.id
          \/ ws \in u.scopes
          \/ wss[ws].visibility = "public"

client_exists(cls, cid, ws) == <<ws, cid>> \in cls

\* delete_client(cid, ws, user): the client goes, and with its last client a
\* non-persistent workspace
delete_client(cls, wss, cid, ws) ==
    LET left == cls \ {<<ws, cid>>}
        gone == /\ ws \in DOMAIN wss
                /\ ~wss[ws].persistent
                /\ ~\E c \in left : c[1] = ws
    IN [clients |-> left,
        workspaces |-> IF gone THEN [n \in DOMAIN wss \ {ws} |-> wss[n]] ELSE wss]

\* ------------------------------------------------- handshake, step by step
\* authenticate_user: [ok, user, workspace, anon, err]
AuthResult(ok, u, ws, anon, err) ==
    [ok |-> ok, user |-> u, workspace |-> ws, anon |-> anon, err |-> err]

\* mutant: the client_id of the reconnection token is not compared
authenticate_userAnyClient(r, nextAnon) ==
    IF r.reconnection_token.present
    THEN LET t == r.reconnection_token IN
         IF ~t.valid
         THEN AuthResult(FALSE, NoUser, None, FALSE, AuthPrefix \o <<"invalid token">>)
         ELSE IF r.workspace # None /\ r.workspace # <<>> /\ r.workspace # t.ws
         THEN AuthResult(FALSE, NoUser, None, FALSE,
                         AuthPrefix \o <<"Workspace mismatch, disconnecting">>)
         ELSE AuthResult(TRUE, t.user, t.ws, FALSE, <<>>)
    ELSE IF r.token # None /\ r.token # <<>>
         THEN IF r.token \in ValidTokens
              THEN AuthResult(TRUE, parse_token(r.token), r.workspace, FALSE, <<>>)
              ELSE AuthResult(FALSE, NoUser, None, FALSE, AuthPrefix \o <<"invalid token">>)
         ELSE AuthResult(TRUE, AnonymousUser(nextAnon), r.workspace, TRUE, <<>>)

authenticate_user(r, nextAnon) ==
    IF r.reconnection_token.present
    THEN LET t == r.reconnection_token IN
         IF ~t.valid
         THEN AuthResult(FALSE, NoUser, None, FALSE, AuthPrefix \o <<"invalid token">>)
         ELSE IF r.workspace # None /\ r.workspace # <<>> /\ r.workspace # t.ws
         THEN AuthResult(FALSE, NoUser, None, FALSE,
                         AuthPrefix \o <<"Workspace mismatch, disconnecting">>)
         ELSE IF t.cid # r.client_id
         THEN AuthResult(FALSE, NoUser, None, FALSE,
                         AuthPrefix \o <<"Client id mismatch, disconnecting">>)
         ELSE AuthResult(TRUE, t.user, t.ws, FALSE, <<>>)
    ELSE IF r.token # None /\ r.token # <<>>
         THEN IF r.token \in ValidTokens
              THEN AuthResult(TRUE, parse_token(r.token), r.workspace, FALSE, <<>>)
              ELSE AuthResult(FALSE, NoUser, None, FALSE, AuthPrefix \o <<"invalid token">>)
         ELSE AuthResult(TRUE, AnonymousUser(nextAnon), r.workspace, TRUE, <<>>)

\* setup_workspace_and_permissions, its pure parts
DefaultWorkspace(u, ws) == IF ws = None THEN u.id ELSE ws

\* mutant: the temporary-test-user role is not looked at
PersistentIgnoresRole(u) == ~u.is_anonymous

Persistent(u) == ~u.is_anonymous /\ "temporary-test-user" \notin u.roles

NewWorkspaceInfo(u) ==
    [persistent |-> Persistent(u), owners |-> <<u.id>>, read_only |-> u.is_anonymous,
     visibility |-> "protected"]

MayCreate(u, ws) == ws = u.id

\* mutant: the result of check_permission is not acted on
PermissionNotChecked(u, ws, wss) == TRUE

\* `if not await self.store.check_permission(user_info, workspace)`
PermissionGranted(u, ws, wss) == check_permission(u, ws, wss)

\* self.store.manager_id
ManagerId == <<"node-1">>

\* frames of the handshake's text protocol
\* absent keys of a frame read as None
ErrorFrame(reason) ==
    [success |-> FALSE, error |-> reason, manager_id |-> None, workspace |-> None,
     client_id |-> None, user |-> NilTok, reconnection_token |-> NoRToken,
     binary |-> FALSE]
SuccessFrame(ws, cid, u) ==
    [success |-> TRUE, error |-> None, manager_id |-> ManagerId, workspace |-> ws,
     client_id |-> cid, user |-> UserTok(u),
     reconnection_token |-> generate_reconnection_token(u, ws, cid),
     binary |-> FALSE]

\* a binary frame written by websocket.send_bytes
BytesFrame == [ErrorFrame(None) EXCEPT !.binary = TRUE]

\* WebsocketServer.disconnect(websocket, reason, code)
ServerDisconnect(h, reason, code) ==
    transport' = [transport EXCEPT ![h].sent = Append(@, ErrorFrame(reason)),
                                   ![h].open = FALSE,
                                   ![h].close_code = code]

\* the except clause of handle_websocket_connection
Fail(h, msg) ==
    /\ ServerDisconnect(h, ErrorPrefix \o msg, WS_1011_INTERNAL_ERROR)
    /\ pc' = [pc EXCEPT ![h] = "returned"]

\* the reconnection tokens sent to clients so far
Minted ==
    { transport[h].sent[1].reconnection_token :
          h \in { x \in Hs : transport[x].sent # <<>> /\ transport[x].sent[1].success } }

\* frames a connected client sends in the model of the frame loop
LoopFrames ==
    { Packb(SpoofedHeader(<<"*", "/", "workspace-manager-", "X">>)) \o MapTail,
      Packb(<< <<Key("type"), StrTok(<<"method">>)>> >>) }

PeerCloseCodes == {WS_1000_NORMAL_CLOSURE, WS_1011_INTERNAL_ERROR}

SendBytes(h) == h

connUnchanged == UNCHANGED connVars
storeUnchanged == UNCHANGED <<workspaces, clients, serverStop>>

\* mutant: the check for a missing client_id is skipped
ClientIdNeverMissing(client_id) == FALSE

\* `if client_id is None`
ClientIdMissing(client_id) == client_id = None

\* websocket_endpoint up to handle_websocket_connection's first store call:
\* accept, first text frame, client_id check, authenticate_user, and the
\* start of setup_workspace_and_permissions
Open(h) ==
    /\ pc[h] = "idle"
    /\ h = "hs2" => pc["hs1"] # "idle"    \* transports are numbered as they arrive
    /\ \E r \in StaticRequests \cup ReconnectRequests(Minted) :
          /\ req' = [req EXCEPT ![h] = r]
          /\ IF r.legacy \/ ~r.json
             THEN \* websocket.close(...) / self.disconnect(...) is never awaited
                  /\ transport' = [transport EXCEPT ![h].open = TRUE]
                  /\ pc' = [pc EXCEPT ![h] = "returned"]
                  /\ UNCHANGED <<user, wsName, anonCount>>
             ELSE IF ClientIdMissing(r.client_id)
             THEN /\ transport' = [transport EXCEPT
                                      ![h].sent = Append(@, ErrorFrame(MissingClientId)),
                                      ![h].close_code = WS_1003_UNSUPPORTED_DATA]
                  /\ pc' = [pc EXCEPT ![h] = "returned"]
                  /\ UNCHANGED <<user, wsName, anonCount>>
             ELSE LET au == authenticate_user(r, anonCount + 1)
                      ws == DefaultWorkspace(au.user, au.workspace)
                  IN /\ anonCount' = IF au.anon THEN anonCount + 1 ELSE anonCount
                     /\ IF ~au.ok
                        THEN /\ Fail(h, au.err)
                             /\ UNCHANGED <<user, wsName>>
                        ELSE /\ user' = [user EXCEPT ![h] = au.user]
                             /\ wsName' = [wsName EXCEPT ![h] = ws]
                             /\ IF ws = <<"*">>
                                THEN Fail(h, NoDynamicWorkspace)
                                ELSE /\ transport' = [transport EXCEPT ![h].open = TRUE]
                                     /\ pc' = [pc EXCEPT ![h] = "workspace_exists"]
    /\ UNCHANGED <<probe, deleted, otherVars>>
    /\ connUnchanged
    /\ storeUnchanged

\* await self.store.workspace_exists(workspace), and the assert that follows
WorkspaceExists(h) ==
    /\ pc[h] = "workspace_exists"
    /\ IF workspace_exists(workspaces, wsName[h])
       THEN /\ pc' = [pc EXCEPT ![h] = "check_permission"]
            /\ UNCHANGED transport
       ELSE IF MayCreate(user[h], wsName[h])
            THEN /\ pc' = [pc EXCEPT ![h] = "register_workspace"]
                 /\ UNCHANGED transport
            ELSE Fail(h, OwnWorkspaceOnly)
    /\ UNCHANGED <<req, user, wsName, anonCount, probe, deleted, otherVars>>
    /\ connUnchanged
    /\ storeUnchanged

\* await self.store.register_workspace({...})
RegisterWorkspace(h) ==
    /\ pc[h] = "register_workspace"
    /\ IF workspace_exists(workspaces, wsName[h])
       THEN /\ Fail(h, <<"Workspace already exists: ">> \o wsName[h])
            /\ UNCHANGED workspaces
       ELSE /\ workspaces' = register_workspace(workspaces, wsName[h],
                                                NewWorkspaceInfo(user[h]))
            /\ pc' = [pc EXCEPT ![h] = "check_permission"]
            /\ UNCHANGED transport
    /\ UNCHANGED <<req, user, wsName, anonCount, clients, serverStop, probe, deleted, otherVars>>
    /\ connUnchanged

\* await self.store.check_permission(user_info, workspace)
CheckPermission(h) ==
    /\ pc[h] = "check_permission"
    /\ IF ~workspace_exists(workspaces, wsName[h])
       THEN Fail(h, <<"Workspace not found: ">> \o wsName[h])
       ELSE IF PermissionGranted(user[h], wsName[h], workspaces)
            THEN /\ pc' = [pc EXCEPT ![h] = "client_exists"]
                 /\ UNCHANGED transport
            ELSE Fail(h, PermissionDenied(wsName[h]))
    /\ UNCHANGED <<req, user, wsName, anonCount, probe, deleted, otherVars>>
    /\ connUnchanged
    /\ storeUnchanged

\* check_client: await self.store.client_exists(client_id, workspace)
ClientExists(h) ==
    /\ pc[h] = "client_exists"
    /\ pc' = [pc EXCEPT ![h] =
                 IF client_exists(clients, req[h].client_id, wsName[h])
                 THEN "ping" ELSE "establish"]
    /\ UNCHANGED <<req, user, wsName, transport, anonCount, probe, deleted, otherVars>>
    /\ connUnchanged
    /\ storeUnchanged

\* a Connection that is constructed, subscribed and not disconnected
Active(c) == conns[c].made /\ ~conns[c].stop /\ conns[c].handle_message # NoHandler

\* the probe can be answered only through a live Connection of (ws, cid)
\* whose transport is open; its peer may still fail to reply in time
CanAnswer(h, ws, cid) ==
    \E o \in Hs \ {h} :
        /\ Active(o)
        /\ conns[o].workspace = ws /\ conns[o].client_id = cid
        /\ transport[o].open

\* what `await ws.ping(...)` evaluates to: "pong", or something else when the
\* probed client does not reply within the timeout
PingAnswers == {"pong", "no_pong"}

\* mutant: the answer of the probe is not looked at
PongIgnored(answer) == FALSE

\* `if await ws.ping(...) == "pong"`
PongReceived(answer) == answer = "pong"

\* check_client: connect_to_workspace(...) and ws.ping(f"{workspace}/{client_id}")
Ping(h) ==
    /\ pc[h] = "ping"
    /\ \E answer \in PingAnswers :
          /\ answer = "pong" => CanAnswer(h, wsName[h], req[h].client_id)
          /\ probe' = [probe EXCEPT ![h] = answer]
          /\ IF PongReceived(answer)
             THEN Fail(h, ClientActive(wsName[h], req[h].client_id))
             ELSE /\ pc' = [pc EXCEPT ![h] = "delete_stale"]
                  /\ UNCHANGED transport
    /\ UNCHANGED <<req, user, wsName, anonCount, deleted, otherVars>>
    /\ connUnchanged
    /\ storeUnchanged

\* mutant: the stale client is left in the store
DeleteStaleKeepsClient(h) ==
    /\ pc[h] = "delete_stale"
    /\ pc' = [pc EXCEPT ![h] = "establish"]
    /\ UNCHANGED <<req, user, wsName, transport, anonCount, serverStop, probe,
                   clients, workspaces, deleted, otherVars>>
    /\ connUnchanged

\* check_client: await self.store.delete_client(client_id, workspace, user_info)
DeleteStale(h) ==
    /\ pc[h] = "delete_stale"
    /\ LET d == delete_client(clients, workspaces, req[h].client_id, wsName[h]) IN
          /\ clients' = d.clients
          /\ workspaces' = d.workspaces
    /\ pc' = [pc EXCEPT ![h] = "establish"]
    /\ UNCHANGED <<req, user, wsName, transport, anonCount, serverStop, probe, deleted, otherVars>>
    /\ connUnchanged

\* mutant: no finally clause
FinallyNothing(h, conn, cb) ==
    /\ conns' = [conns EXCEPT ![h] = conn]
    /\ callbacks' = cb
    /\ UNCHANGED disconnected_calls
    /\ lastCall' = Call("on_message", h, <<>>, "ok")

\* finally: if conn: await conn.disconnect()
FinallyDisconnect(h, conn, cb) ==
    LET d == disconnect(conn, cb) IN
    /\ conns' = [conns EXCEPT ![h] = d.conn]
    /\ callbacks' = d.cb
    /\ disconnected_calls' =
           [disconnected_calls EXCEPT ![h] = IF d.called THEN @ + 1 ELSE @]
    /\ lastCall' = Call("disconnect", h, <<>>, "ok")

\* mutant: the Connection is constructed and subscribed, the success reply
\* is left for later
EstablishReplyLater(h) ==
    /\ pc[h] = "establish"
    /\ ConnInitOk(wsName[h], req[h].client_id)
    /\ LET made == ConnInit(wsName[h], req[h].client_id, user[h])
           r == on_message(made, callbacks, SendBytes(h))
       IN /\ conns' = [conns EXCEPT ![h] = r.conn]
          /\ callbacks' = r.cb
          /\ connect_tasks' = [connect_tasks EXCEPT ![h] = IF r.task THEN @ + 1 ELSE @]
          /\ lastCall' = Call("on_message", h, <<>>, "ok")
    /\ pc' = [pc EXCEPT ![h] = "reply"]
    /\ UNCHANGED <<published, disconnected_calls, transport>>
    /\ UNCHANGED <<req, user, wsName, anonCount, probe, deleted, otherVars>>
    /\ storeUnchanged

\* establish_websocket_communication up to the frame loop
Establish(h) ==
    /\ pc[h] = "establish"
    /\ IF ~ConnInitOk(wsName[h], req[h].client_id)
       THEN \* the constructor's assert: except Exception -> handle_disconnection
            /\ pc' = [pc EXCEPT ![h] = "cleanup"]
            /\ UNCHANGED transport
            /\ connUnchanged
       ELSE LET made == ConnInit(wsName[h], req[h].client_id, user[h])
                r == on_message(made, callbacks, SendBytes(h))
            IN /\ connect_tasks' = [connect_tasks EXCEPT ![h] = IF r.task THEN @ + 1 ELSE @]
               /\ transport' = [transport EXCEPT ![h].sent =
                       Append(@, SuccessFrame(wsName[h], req[h].client_id, user[h]))]
               /\ IF serverStop
                  THEN \* `while not self._stop` is left at once
                       /\ FinallyDisconnect(h, r.conn, r.cb)
                       /\ pc' = [pc EXCEPT ![h] = "returned"]
                  ELSE /\ conns' = [conns EXCEPT ![h] = r.conn]
                       /\ callbacks' = r.cb
                       /\ lastCall' = Call("on_message", h, <<>>, "ok")
                       /\ pc' = [pc EXCEPT ![h] = "loop"]
                       /\ UNCHANGED disconnected_calls
               /\ UNCHANGED published
    /\ UNCHANGED <<req, user, wsName, anonCount, probe, deleted, otherVars>>
    /\ storeUnchanged

\* establish_websocket_communication when the peer is gone before the reply:
\* the Connection is constructed and subscribed, websocket.send_text raises
ReplyFails(h) ==
    /\ pc[h] = "establish"
    /\ ConnInitOk(wsName[h], req[h].client_id)
    /\ LET made == ConnInit(wsName[h], req[h].client_id, user[h])
           r == on_message(made, callbacks, SendBytes(h))
       IN /\ conns' = [conns EXCEPT ![h] = r.conn]
          /\ callbacks' = r.cb
          /\ connect_tasks' = [connect_tasks EXCEPT ![h] = IF r.task THEN @ + 1 ELSE @]
          /\ lastCall' = Call("on_message", h, <<>>, "ok")
    /\ transport' = [transport EXCEPT ![h].open = FALSE]
    /\ pc' = [pc EXCEPT ![h] = "cleanup"]
    /\ UNCHANGED <<published, disconnected_calls>>
    /\ UNCHANGED <<req, user, wsName, anonCount, probe, deleted, otherVars>>
    /\ storeUnchanged

\* the frame loop: data = await websocket.receive_bytes();
\* await conn.emit_message(data)
Recv(h) ==
    /\ pc[h] = "loop"
    /\ \E data \in LoopFrames :
          LET r == emit_message(conns[h], data) IN
          /\ r.result = "ok" => Len(published) < MaxPublished
          /\ IF r.result = "ok"
             THEN IF serverStop
                  THEN /\ published' = Append(published,
                                              [channel |-> r.channel, data |-> r.packed])
                       /\ FinallyDisconnect(h, conns[h], callbacks)
                       /\ pc' = [pc EXCEPT ![h] = "returned"]
                       /\ UNCHANGED connect_tasks
                  ELSE /\ DoEmitMessage(h, data)
                       /\ UNCHANGED pc
             ELSE \* except Exception -> handle_disconnection
                  /\ DoEmitMessage(h, data)
                  /\ pc' = [pc EXCEPT ![h] = "cleanup"]
    /\ UNCHANGED <<req, user, wsName, transport, anonCount, probe, deleted, otherVars>>
    /\ storeUnchanged

\* mutant: WebSocketDisconnect is not handled, the coroutine just ends
PeerCloseUnhandled(h) ==
    /\ pc[h] = "loop"
    /\ \E code \in PeerCloseCodes :
          transport' = [transport EXCEPT ![h].open = FALSE, ![h].close_code = code]
    /\ pc' = [pc EXCEPT ![h] = "returned"]
    /\ UNCHANGED <<req, user, wsName, anonCount, probe, deleted, otherVars>>
    /\ connUnchanged
    /\ storeUnchanged

\* the peer closes the transport: receive_bytes raises WebSocketDisconnect
PeerClose(h) ==
    /\ pc[h] = "loop"
    /\ \E code \in PeerCloseCodes :
          transport' = [transport EXCEPT ![h].open = FALSE, ![h].close_code = code]
    /\ pc' = [pc EXCEPT ![h] = "cleanup"]
    /\ UNCHANGED <<req, user, wsName, anonCount, probe, deleted, otherVars>>
    /\ connUnchanged
    /\ storeUnchanged

\* mutant: an error of delete_client is not caught
DeleteClientNeverRaised(raises) == FALSE

\* `except Exception as e` around delete_client
DeleteClientRaised(raises) == raises

\* handle_disconnection: await self.store.delete_client(...), then the
\* finally clause of establish_websocket_communication
Cleanup(h) ==
    /\ pc[h] = "cleanup"
    /\ \E raises \in BOOLEAN :
          LET d == delete_client(clients, workspaces, req[h].client_id, wsName[h]) IN
          /\ deleted' = [deleted EXCEPT ![h] = [calls |-> @.calls + 1, raised |-> raises]]
          /\ IF DeleteClientRaised(raises)
             THEN \* except Exception: logger.error(...)
                  UNCHANGED <<clients, workspaces>>
             ELSE /\ clients' = d.clients
                  /\ workspaces' = d.workspaces
    /\ IF conns[h].made
       THEN /\ FinallyDisconnect(h, conns[h], callbacks)
            /\ UNCHANGED <<published, connect_tasks>>
       ELSE connUnchanged
    /\ pc' = [pc EXCEPT ![h] = "returned"]
    /\ UNCHANGED <<req, user, wsName, transport, anonCount, serverStop, probe, otherVars>>

\* WebsocketServer.stop()
Stop ==
    /\ ~serverStop
    /\ serverStop' = TRUE
    /\ UNCHANGED <<pc, req, user, wsName, transport, workspaces, clients, anonCount, probe, deleted, otherVars>>
    /\ connUnchanged

\* the connected client registers itself with the store (register_client)
RegisterClient(h) ==
    /\ pc[h] = "loop"
    /\ workspace_exists(workspaces, wsName[h])
    /\ ~client_exists(clients, req[h].client_id, wsName[h])
    /\ clients' = clients \cup {<<wsName[h], req[h].client_id>>}
    /\ UNCHANGED <<pc, req, user, wsName, transport, workspaces, serverStop, anonCount, probe, deleted, otherVars>>
    /\ connUnchanged

MaxSent == 2

\* another publisher's frame arrives on the Connection's direct or broadcast
\* channel: the bus calls the handler given to on_message,
\* websocket.send_bytes, which writes it to the open transport
RemoteFrame(h) ==
    /\ conns[h].made
    /\ \E ch \in {DirectChannel(conns[h]), BroadcastChannel(conns[h])} :
          SendBytes(h) \in Dispatch(callbacks, ch)
    /\ transport[h].open
    /\ Len(transport[h].sent) < MaxSent
    /\ transport' = [transport EXCEPT ![h].sent = Append(@, BytesFrame)]
    /\ UNCHANGED <<pc, req, user, wsName, anonCount, probe, deleted, otherVars>>
    /\ connUnchanged
    /\ storeUnchanged

\* handle_disconnection's call of delete_client, per handshake
NotDeleted == [calls |-> 0, raised |-> FALSE]

\* ------------------------------------------------ RedisEventBus, payloads
\* a Python value handed to emit: a dict (its keys), a str (its characters),
\* bytes (one atom per byte), or None
PyDict(keys) == [kind |-> "dict", v |-> keys]
PyStr(chars) == [kind |-> "str", v |-> chars]
PyBytes(bs) == [kind |-> "bytes", v |-> bs]
PyNone == [kind |-> "none", v |-> <<>>]

\* bool(data)
Truthy(data) == data.kind # "none" /\ data.v # <<>>

\* str.encode("utf-8"): an ASCII character is one byte, `é` is 0xC3 0xA9
RECURSIVE Utf8Encode(_)
Utf8Encode(chars) ==
    IF chars = <<>> THEN <<>>
    ELSE (IF chars[1] = "é" THEN <<"xC3", "xA9">> ELSE <<chars[1]>>)
             \o Utf8Encode(Tail(chars))

NonAsciiBytes == {"xC3", "xA9", "xFF"}

\* bytes.decode("utf-8"): [ok, chars]
RECURSIVE Utf8Decode(_)
Utf8Decode(bs) ==
    IF bs = <<>> THEN [ok |-> TRUE, chars |-> <<>>]
    ELSE IF bs[1] = "xC3" /\ Len(bs) >= 2 /\ bs[2] = "xA9"
         THEN LET r == Utf8Decode(SubSeq(bs, 3, Len(bs)))
              IN [ok |-> r.ok, chars |-> <<"é">> \o r.chars]
         ELSE IF bs[1] \in NonAsciiBytes
              THEN [ok |-> FALSE, chars |-> <<>>]
              ELSE LET r == Utf8Decode(Tail(bs))
                   IN [ok |-> r.ok, chars |-> <<bs[1]>> \o r.chars]

\* json.dumps(data) of a dict
JsonDumps(data) == <<"{">> \o data.v \o <<"}">>

\* json.loads(bytes): [ok, value]
JsonLoads(bs) ==
    LET t == Utf8Decode(bs) IN
    IF t.ok /\ Len(t.chars) >= 2 /\ t.chars[1] = "{" /\ t.chars[Len(t.chars)] = "}"
    THEN [ok |-> TRUE, value |-> PyDict(SubSeq(t.chars, 2, Len(t.chars) - 1))]
    ELSE [ok |-> FALSE, value |-> PyNone]

\* "event:" + data_type + event_name
ChannelOf(data_type, event_name) == <<"event:", data_type>> \o event_name

\* channel.startswith("event:" + data_type)
StartsWithKind(channel, data_type) ==
    Len(channel) >= 2 /\ channel[1] = "event:" /\ channel[2] = data_type

\* RedisEventBus.emit, the part after the local dispatch:
\* [raised, channel, data] of the broker publish
EncodeForBroker(event_name, data) ==
    IF data.kind = "dict"
    THEN [raised |-> FALSE, channel |-> ChannelOf("d:", event_name),
          data |-> Utf8Encode(JsonDumps(data))]
    ELSE IF data.kind = "str"
    THEN [raised |-> FALSE, channel |-> ChannelOf("s:", event_name),
          data |-> Utf8Encode(data.v)]
    ELSE IF Truthy(data) /\ data.kind = "bytes"
    THEN [raised |-> FALSE, channel |-> ChannelOf("b:", event_name), data |-> data.v]
    ELSE [raised |-> TRUE, channel |-> <<>>, data |-> <<>>]

\* one iteration of _subscribe_redis on a message:
\* [raised, known, event, payload]
DecodeFromBroker(msg) ==
    LET event_type == SubSeq(msg.channel, 3, Len(msg.channel)) IN
    IF StartsWithKind(msg.channel, "b:")
    THEN [raised |-> FALSE, known |-> TRUE, event |-> event_type,
          payload |-> PyBytes(msg.data)]
    ELSE IF StartsWithKind(msg.channel, "d:")
    THEN LET j == JsonLoads(msg.data) IN
         [raised |-> ~j.ok, known |-> TRUE, event |-> event_type, payload |-> j.value]
    ELSE IF StartsWithKind(msg.channel, "s:")
    THEN LET t == Utf8Decode(msg.data) IN
         [raised |-> ~t.ok, known |-> TRUE, event |-> event_type,
          payload |-> PyStr(t.chars)]
    ELSE [raised |-> FALSE, known |-> FALSE, event |-> <<>>, payload |-> PyNone]

NoMsg == [channel |-> <<>>, data |-> <<>>]

\* no operation of the federated bus yet
NoBusCall ==
    [op |-> "none", event |-> <<>>, data |-> PyNone, msg |-> NoMsg, raised |-> FALSE,
     local |-> <<>>, published |-> <<>>, dispatched |-> <<>>]

BusCall(op, event, data, msg, raised, local, pub, disp) ==
    [op |-> op, event |-> event, data |-> data, msg |-> msg, raised |-> raised,
     local |-> local, published |-> pub, dispatched |-> disp]

\* ------------------------------------------------ RedisEventBus, as steps
MaxBroker == 2

BusEvents == { <<"e">>, <<"f">> }
RemoteHandlers == {"h1"}
LocalHandlers == {"h2"}

BusPayloads ==
    { PyDict(<<"k">>), PyStr(<<"h", "é">>), PyBytes(<<"xFF">>), PyBytes(<<>>) }

\* messages other publishers put on the broker
ForeignMessages ==
    { [channel |-> ChannelOf("d:", <<"e">>), data |-> <<"{", "n", "o">>],
      [channel |-> ChannelOf("s:", <<"e">>), data |-> <<"xFF">>],
      [channel |-> ChannelOf("x:", <<"e">>), data |-> <<"o">>] }

busRest ==
    UNCHANGED <<conns, published, disconnected_calls, connect_tasks, lastCall,
                hubVars, coreVars, clientVars>>

Invocations(handlers, via) == {[handler |-> h, via |-> via] : h \in handlers}

MaxOnceCalls == 2

\* handlers handed to once() and to once_local(); the *_bad ones raise
OnceRemote == {"r_ok", "r_bad"}
OnceLocal == {"l_ok", "l_bad"}
OnceWrappers == OnceRemote \cup OnceLocal
RaisingHandlers == {"r_bad", "l_bad"}

\* once_wrapper: `result = func(*args, **kwargs)` and then
\* `off(event_name, once_wrapper)`, which a raising func never reaches
WrapperRemoved(h) == h \in OnceWrappers /\ h \notin RaisingHandlers

RECURSIVE OffAll(_, _, _)
OffAll(cb, event_name, hs) ==
    IF hs = {} THEN cb
    ELSE LET h == CHOOSE x \in hs : TRUE
         IN OffAll(BusOff(cb, event_name, h), event_name, hs \ {h})

\* one emit on an EventBus holding `cb`, reaching the handlers `hs`: the
\* handlers called, whether a handler's exception left emit (`propagate`
\* says whether the bus lets it), and the callbacks afterwards
Run(cb, hs, event_name, propagate) ==
    LET seq == IF event_name \in DOMAIN cb THEN cb[event_name] ELSE <<>>
        bad == {i \in 1..Len(seq) : seq[i] \in RaisingHandlers}
        first == IF bad = {} THEN 0 ELSE CHOOSE i \in bad : \A j \in bad : i <= j
        stops == propagate /\ first > 0
        called == IF stops THEN hs \cap {seq[i] : i \in 1..first} ELSE hs
    IN [called |-> called, raised |-> stops,
        callbacks |-> OffAll(cb, event_name, {h \in called : WrapperRemoved(h)})]

\* whether the bus lets a handler's exception leave emit matters only when
\* a raising handler is reached
Propagation(cb, event_name) ==
    IF Dispatch(cb, event_name) \cap RaisingHandlers = {} THEN {FALSE} ELSE BOOLEAN

Counted(calls, called) ==
    [h \in OnceWrappers |-> IF h \in called THEN calls[h] + 1 ELSE calls[h]]

CanCount(called) == \A h \in called \cap OnceWrappers : once_calls[h] < MaxOnceCalls

\* mutant: emit dispatches on the bus that holds the on() handlers
LocalDispatchOnRemoteBus(lcb, cb, event_name) == Dispatch(cb, event_name)

\* self._local_event_bus.emit(event_name, data)
LocalDispatch(lcb, cb, event_name) == Dispatch(lcb, event_name)

\* `if not self._ready.done(): self._ready.set_result(True)`
ReadyAfterPublisher(r) == IF r = "pending" THEN "ok" ELSE r

\* init(): the readiness future and the subscriber task are created
BusInit ==
    /\ ready = "unset"
    /\ ready' = "pending"
    /\ subscriber' = [pc |-> "psubscribe", pos |-> 0]
    /\ busLast' = BusCall("init", <<>>, PyNone, NoMsg, FALSE, <<>>, <<>>, <<>>)
    /\ UNCHANGED <<callbacks, local_callbacks, broker, invoked, once_calls>>
    /\ busRest

\* _subscribe_redis: `await pubsub.psubscribe("event:*")` returns or raises,
\* then set_result / set_exception on the readiness future; either of them
\* raises InvalidStateError on a future that is already resolved
SubscribeReturns ==
    /\ subscriber.pc = "psubscribe"
    /\ \E ok \in BOOLEAN :
          /\ IF ready = "pending"
             THEN /\ ready' = IF ok THEN "ok" ELSE "error"
                  /\ subscriber' = [pc |-> IF ok THEN "running" ELSE "ended",
                                    pos |-> Len(broker)]
             ELSE /\ UNCHANGED ready
                  /\ subscriber' = [pc |-> "dead", pos |-> Len(broker)]
          /\ busLast' = BusCall("subscribed", <<>>, PyNone, NoMsg, ~ok, <<>>, <<>>, <<>>)
    /\ UNCHANGED <<callbacks, local_callbacks, broker, invoked, once_calls>>
    /\ busRest

\* on(event_name, func)
On(event_name, h) ==
    /\ ~Subscribed(callbacks, event_name, h)
    /\ callbacks' = BusOn(callbacks, event_name, h)
    /\ busLast' = BusCall("on", event_name, PyNone, NoMsg, FALSE, <<>>, <<>>, <<>>)
    /\ UNCHANGED <<ready, subscriber, local_callbacks, broker, invoked, once_calls>>
    /\ busRest

\* on_local(event_name, func)
OnLocal(event_name, h) ==
    /\ ~Subscribed(local_callbacks, event_name, h)
    /\ local_callbacks' = BusOn(local_callbacks, event_name, h)
    /\ busLast' = BusCall("on_local", event_name, PyNone, NoMsg, FALSE, <<>>, <<>>, <<>>)
    /\ UNCHANGED <<ready, subscriber, callbacks, broker, invoked, once_calls>>
    /\ busRest

\* emit(event_name, data)
Emit(event_name, data) ==
    \E propagate \in Propagation(local_callbacks, event_name) :
      LET run == Run(local_callbacks,
                     LocalDispatch(local_callbacks, callbacks, event_name),
                     event_name, propagate)
          enc == EncodeForBroker(event_name, data)
          out == [channel |-> enc.channel, data |-> enc.data]
          raised == run.raised \/ enc.raised
      IN /\ ready # "unset"
         /\ ~raised => Len(broker) < MaxBroker
         /\ CanCount(run.called)
         /\ ready' = ReadyAfterPublisher(ready)
         /\ invoked' = invoked \cup Invocations(run.called, "emit")
         /\ once_calls' = Counted(once_calls, run.called)
         /\ local_callbacks' = run.callbacks
         /\ broker' = IF raised THEN broker ELSE Append(broker, out)
         /\ busLast' = BusCall("emit", event_name, data, NoMsg, raised,
                               <<[event |-> event_name, payload |-> data]>>,
                               IF raised THEN <<>> ELSE <<out>>, <<>>)
         /\ UNCHANGED <<subscriber, callbacks>>
         /\ busRest

\* emit_local(event_name, data)
EmitLocal(event_name, data) ==
    \E propagate \in Propagation(local_callbacks, event_name) :
      LET run == Run(local_callbacks,
                     LocalDispatch(local_callbacks, callbacks, event_name),
                     event_name, propagate)
      IN /\ ready # "unset"
         /\ CanCount(run.called)
         /\ ready' = ReadyAfterPublisher(ready)
         /\ invoked' = invoked \cup Invocations(run.called, "emit_local")
         /\ once_calls' = Counted(once_calls, run.called)
         /\ local_callbacks' = run.callbacks
         /\ busLast' = BusCall("emit_local", event_name, data, NoMsg, run.raised,
                               <<[event |-> event_name, payload |-> data]>>, <<>>, <<>>)
         /\ UNCHANGED <<subscriber, callbacks, broker>>
         /\ busRest

\* once(event_name, func): once_wrapper is registered on the redis event bus
Once(event_name, h) ==
    /\ once_calls[h] = 0
    /\ ~Subscribed(callbacks, event_name, h)
    /\ callbacks' = BusOn(callbacks, event_name, h)
    /\ busLast' = BusCall("once", event_name, PyNone, NoMsg, FALSE, <<>>, <<>>, <<>>)
    /\ UNCHANGED <<ready, subscriber, local_callbacks, broker, invoked, once_calls>>
    /\ busRest

\* once_local(event_name, func): once_wrapper is registered on the local bus
OnceLocalCall(event_name, h) ==
    /\ once_calls[h] = 0
    /\ ~Subscribed(local_callbacks, event_name, h)
    /\ local_callbacks' = BusOn(local_callbacks, event_name, h)
    /\ busLast' = BusCall("once_local", event_name, PyNone, NoMsg, FALSE, <<>>, <<>>, <<>>)
    /\ UNCHANGED <<ready, subscriber, callbacks, broker, invoked, once_calls>>
    /\ busRest

\* another publisher's message arrives on the broker
ForeignPublish(msg) ==
    /\ Len(broker) < MaxBroker
    /\ broker' = Append(broker, msg)
    /\ UNCHANGED <<ready, subscriber, callbacks, local_callbacks, invoked, once_calls,
                   busLast>>
    /\ busRest

\* _subscribe_redis, one message: decode it for its kind and emit it on the
\* redis event bus; an exception ends in set_exception on the resolved
\* future, whose InvalidStateError ends the task
Deliver ==
    /\ subscriber.pc = "running"
    /\ subscriber.pos < Len(broker)
    /\ LET msg == broker[subscriber.pos + 1]
           dec == DecodeFromBroker(msg)
       IN \E logger \in BOOLEAN, propagate \in Propagation(callbacks, dec.event) :
             LET hit == ~dec.raised /\ dec.known
                 run == IF hit
                        THEN Run(callbacks, Dispatch(callbacks, dec.event), dec.event,
                                 propagate)
                        ELSE [called |-> {}, raised |-> FALSE, callbacks |-> callbacks]
                 dies == dec.raised \/ (~dec.known /\ ~logger) \/ run.raised
             IN /\ CanCount(run.called)
                /\ subscriber' = [pc |-> IF dies THEN "dead" ELSE "running",
                                  pos |-> subscriber.pos + 1]
                /\ invoked' = invoked \cup Invocations(run.called, "broker")
                /\ once_calls' = Counted(once_calls, run.called)
                /\ callbacks' = run.callbacks
                /\ busLast' = BusCall("deliver", dec.event, PyNone, msg, dies, <<>>, <<>>,
                                      IF hit
                                      THEN <<[event |-> dec.event, payload |-> dec.payload]>>
                                      ELSE <<>>)
    /\ UNCHANGED <<ready, local_callbacks, broker>>
    /\ busRest

\* stop(): the loop ends at its next test of self._stop
BusStop ==
    /\ subscriber.pc = "running"
    /\ subscriber' = [subscriber EXCEPT !.pc = "stopped"]
    /\ UNCHANGED <<ready, callbacks, local_callbacks, broker, invoked, once_calls,
                   busLast>>
    /\ busRest

\* ------------------------------------------------- CoreInterface, as steps
MaxServices == 2

\* position of the init() coroutine: the await it is suspended at, and the
\* index of the for loop over self._public_services
At(at, i) == [at |-> at, i |-> i]

NoCoreCall == [op |-> "none", service |-> <<>>, ready |-> FALSE, result |-> "none"]

\* service dicts handed to register_public_service
Service(name, has_type) == [name |-> name, has_type |-> has_type]

ServiceDicts ==
    { Service(<<"s1">>, TRUE), Service(<<"s2">>, TRUE), Service(<<"s3">>, FALSE) }

coreRest ==
    UNCHANGED <<connVars, pc, req, user, wsName, transport, clients, serverStop,
                anonCount, probe, deleted, busVars, clientVars>>

\* mutant: the readiness assertion is not made
AssertNotReadySkipped(r) == TRUE

\* `assert not self._ready`
AssertNotReady(r) == ~r

\* register_public_service(service)
RegisterPublicService(service) ==
    LET result == IF ~AssertNotReady(coreReady) THEN "AssertionError"
                  ELSE IF ~service.has_type THEN "Exception"
                  ELSE "queued"
    IN /\ result = "queued" => Len(public_services) < MaxServices
       /\ public_services' = IF result = "queued"
                              THEN Append(public_services, service.name)
                              ELSE public_services
       /\ coreLast' = [op |-> "register_public_service", service |-> service.name,
                       ready |-> coreReady, result |-> result]
       /\ UNCHANGED <<corePc, registered, coreReady, workspaces>>
       /\ coreRest

\* init(): `await self.store.init(loop)`
StoreInit ==
    /\ corePc.at = "start"
    /\ \E ok \in BOOLEAN : corePc' = At(IF ok THEN "store_ready" ELSE "failed", 0)
    /\ UNCHANGED <<public_services, registered, coreReady, coreLast, workspaces>>
    /\ coreRest

\* init(): `await self.store.register_workspace(self._public_workspace, overwrite=True)`
RegisterPublicWorkspace ==
    /\ corePc.at = "store_ready"
    /\ \E ok \in BOOLEAN :
          IF ok
          THEN /\ workspaces' = register_workspace(workspaces, <<"public">>, PublicWorkspace)
               /\ corePc' = At("workspace_registered", 0)
          ELSE /\ UNCHANGED workspaces
               /\ corePc' = At("failed", 0)
    /\ UNCHANGED <<public_services, registered, coreReady, coreLast>>
    /\ coreRest

\* init(): get_workspace_manager("public") and manager.get_workspace()
GetPublicInterface ==
    /\ corePc.at = "workspace_registered"
    /\ \E ok \in BOOLEAN : corePc' = At(IF ok THEN "services" ELSE "failed", 0)
    /\ UNCHANGED <<public_services, registered, coreReady, coreLast, workspaces>>
    /\ coreRest

\* init(): one iteration of `for service in self._public_services`, which
\* registers the service in the public workspace or re-raises
RegisterNextService ==
    /\ corePc.at = "services"
    /\ corePc.i < Len(public_services)
    /\ \E ok \in BOOLEAN :
          IF ok
          THEN /\ registered' = registered \cup {public_services[corePc.i + 1]}
               /\ corePc' = At("services", corePc.i + 1)
          ELSE /\ UNCHANGED registered
               /\ corePc' = At("failed", corePc.i)
    /\ UNCHANGED <<public_services, coreReady, coreLast, workspaces>>
    /\ coreRest

\* init(): the loop is exhausted and `self._ready = True`
BecomeReady ==
    /\ corePc.at = "services"
    /\ corePc.i >= Len(public_services)
    /\ corePc' = At("done", corePc.i)
    /\ coreReady' = TRUE
    /\ UNCHANGED <<public_services, registered, coreLast, workspaces>>
    /\ coreRest

\* is_ready()
is_ready == coreReady

\* ---------------------------------------- WebsocketRPCConnection, as steps
MaxSockets == 3

Emitters == {"e1", "e2"}

\* the outcomes of a websocket closing: ConnectionClosedOK, ConnectionClosedError
CloseOutcomes == {"ok", "error"}

\* a websocket returned by websockets.connect: who opened it, whether
\* disconnect() had been called by then, and its _listen task
Socket(by, after) ==
    [closed |-> FALSE, by |-> by, after_disconnect |-> after, listener |-> "recv"]

\* __init__: self._websocket = None
ClientFresh ==
    /\ cl_websocket = 0
    /\ cl_sockets = <<>>
    /\ cl_emit = [e \in Emitters |-> "idle"]
    /\ cl_disconnected = FALSE

clientRest == UNCHANGED <<connVars, hubVars, busVars, coreVars>>

\* `not self._websocket or self._websocket.closed`
NeedsOpen == cl_websocket = 0 \/ cl_sockets[cl_websocket].closed

\* open(), after connect returned: self._websocket = ws and
\* asyncio.ensure_future(self._listen(ws))
Opened(by) ==
    /\ cl_sockets' = Append(cl_sockets, Socket(by, cl_disconnected))
    /\ cl_websocket' = Len(cl_sockets) + 1

\* the websocket closes: `ws.closed` becomes true and its listener leaves
\* the loop: at `await ws.recv()` with ConnectionClosedOK (the task ends)
\* or ConnectionClosedError (it awaits self.open()), or at the loop test
\* when the handler was running (the task ends)
Closed(socks, i, how, at_recv) ==
    [socks EXCEPT ![i].closed = TRUE,
                  ![i].listener = IF how = "error" /\ at_recv THEN "connecting"
                                  ELSE "ended"]

\* emit_message up to its first await: the websocket test, then open() or send
EmitMessage(e) ==
    /\ cl_emit[e] = "idle"
    /\ cl_emit' = [cl_emit EXCEPT ![e] = IF NeedsOpen THEN "connecting" ELSE "sent"]
    /\ UNCHANGED <<cl_websocket, cl_sockets, cl_disconnected>>
    /\ clientRest

\* emit_message: `await websockets.connect(self._url)` returns or raises;
\* after open() the frame is sent on self._websocket
EmitConnected(e) ==
    /\ cl_emit[e] = "connecting"
    /\ \E ok \in BOOLEAN :
          IF ok
          THEN /\ Len(cl_sockets) < MaxSockets
               /\ Opened("emit")
               /\ cl_emit' = [cl_emit EXCEPT ![e] = "sent"]
          ELSE /\ cl_emit' = [cl_emit EXCEPT ![e] = "failed"]
               /\ UNCHANGED <<cl_websocket, cl_sockets>>
    /\ UNCHANGED cl_disconnected
    /\ clientRest

\* the peer or the network closes websocket i
SocketCloses(i) ==
    /\ i \in 1..Len(cl_sockets)
    /\ ~cl_sockets[i].closed
    /\ \E how \in CloseOutcomes, at_recv \in BOOLEAN :
          cl_sockets' = Closed(cl_sockets, i, how, at_recv)
    /\ UNCHANGED <<cl_websocket, cl_emit, cl_disconnected>>
    /\ clientRest

\* _listen, `except ConnectionClosedError: await self.open()`: connect
\* returns or raises
ListenerConnected(i) ==
    /\ i \in 1..Len(cl_sockets)
    /\ cl_sockets[i].listener = "connecting"
    /\ \E ok \in BOOLEAN :
          IF ok
          THEN /\ Len(cl_sockets) < MaxSockets
               /\ cl_sockets' = Append([cl_sockets EXCEPT ![i].listener = "ended"],
                                       Socket("listener", cl_disconnected))
               /\ cl_websocket' = Len(cl_sockets) + 1
          ELSE /\ cl_sockets' = [cl_sockets EXCEPT ![i].listener = "ended"]
               /\ UNCHANGED cl_websocket
    /\ UNCHANGED <<cl_emit, cl_disconnected>>
    /\ clientRest

\* disconnect(): self._websocket = None, and `await ws.close(code=1000)` on
\* a websocket that is not closed
Disconnect ==
    /\ ~cl_disconnected
    /\ cl_websocket' = 0
    /\ cl_disconnected' = TRUE
    /\ IF cl_websocket # 0 /\ ~cl_sockets[cl_websocket].closed
       THEN \E how \in CloseOutcomes, at_recv \in BOOLEAN :
               cl_sockets' = Closed(cl_sockets, cl_websocket, how, at_recv)
       ELSE UNCHANGED cl_sockets
    /\ UNCHANGED cl_emit
    /\ clientRest

\* ----------------------------------------------------------- specifications
HubInit ==
    /\ ClientFresh
    /\ conns = [c \in ConnIds |-> NoConn]
    /\ callbacks = <<>>
    /\ published = <<>>
    /\ disconnected_calls = [c \in ConnIds |-> 0]
    /\ connect_tasks = [c \in ConnIds |-> 0]
    /\ lastCall = Call("none", "rpc", <<>>, "ok")
    /\ pc = [h \in Hs |-> "idle"]
    /\ req = [h \in Hs |-> NoRequest]
    /\ user = [h \in Hs |-> NoUser]
    /\ wsName = [h \in Hs |-> None]
    /\ transport = [h \in Hs |->
                        [open |-> FALSE, sent |-> <<>>, close_code |-> 0]]
    /\ workspaces = [n \in {<<"public">>} |-> PublicWorkspace]
    /\ clients = {}
    /\ serverStop = FALSE
    /\ anonCount = 0
    /\ probe = [h \in Hs |-> "none"]
    /\ deleted = [h \in Hs |-> NotDeleted]

BusInitRest ==
    /\ local_callbacks = <<>>
    /\ broker = <<>>
    /\ invoked = {}
    /\ once_calls = [h \in OnceWrappers |-> 0]
    /\ busLast = NoBusCall

\* a CoreInterface whose init() has completed
CoreInitDone ==
    /\ corePc = At("done", 0)
    /\ public_services = <<>>
    /\ registered = {}
    /\ coreReady = TRUE
    /\ coreLast = NoCoreCall

\* a CoreInterface just constructed, over an empty store
CoreFresh ==
    /\ corePc = At("start", 0)
    /\ public_services = <<>>
    /\ registered = {}
    /\ coreReady = FALSE
    /\ coreLast = NoCoreCall
    /\ ClientFresh
    /\ conns = [c \in ConnIds |-> NoConn]
    /\ callbacks = <<>>
    /\ published = <<>>
    /\ disconnected_calls = [c \in ConnIds |-> 0]
    /\ connect_tasks = [c \in ConnIds |-> 0]
    /\ lastCall = Call("none", "rpc", <<>>, "ok")
    /\ pc = [h \in Hs |-> "idle"]
    /\ req = [h \in Hs |-> NoRequest]
    /\ user = [h \in Hs |-> NoUser]
    /\ wsName = [h \in Hs |-> None]
    /\ transport = [h \in Hs |->
                        [open |-> FALSE, sent |-> <<>>, close_code |-> 0]]
    /\ workspaces = <<>>
    /\ clients = {}
    /\ serverStop = FALSE
    /\ anonCount = 0
    /\ probe = [h \in Hs |-> "none"]
    /\ deleted = [h \in Hs |-> NotDeleted]
    /\ ready = "unset"
    /\ subscriber = [pc |-> "none", pos |-> 0]
    /\ BusInitRest

Init ==
    /\ HubInit
    /\ ready = "ok"
    /\ subscriber = [pc |-> "running", pos |-> 0]
    /\ BusInitRest
    /\ CoreInitDone

\* a federated bus just constructed, init() not yet called
BusFresh ==
    /\ ready = "unset"
    /\ subscriber = [pc |-> "none", pos |-> 0]
    /\ BusInitRest
    /\ HubInit
    /\ CoreInitDone

Next ==
    \/ \E h \in Hs : Open(h)
    \/ \E h \in Hs : WorkspaceExists(h)
    \/ \E h \in Hs : RegisterWorkspace(h)
    \/ \E h \in Hs : CheckPermission(h)
    \/ \E h \in Hs : ClientExists(h)
    \/ \E h \in Hs : Ping(h)
    \/ \E h \in Hs : DeleteStale(h)
    \/ \E h \in Hs : Establish(h)
    \/ \E h \in Hs : ReplyFails(h)
    \/ \E h \in Hs : Recv(h)
    \/ \E h \in Hs : PeerClose(h)
    \/ \E h \in Hs : Cleanup(h)
    \/ \E h \in Hs : RegisterClient(h)
    \/ Stop

Spec == Init /\ [][Next]_vars

\* one handshake, with other publishers sending to its channels
DeliveryNext ==
    \/ Open("hs1")
    \/ WorkspaceExists("hs1")
    \/ RegisterWorkspace("hs1")
    \/ CheckPermission("hs1")
    \/ ClientExists("hs1")
    \/ Establish("hs1")
    \/ ReplyFails("hs1")
    \/ Recv("hs1")
    \/ PeerClose("hs1")
    \/ Cleanup("hs1")
    \/ RemoteFrame("hs1")
    \/ Stop

DeliverySpec == Init /\ [][DeliveryNext]_vars

ClientNext ==
    \/ \E e \in Emitters : EmitMessage(e)
    \/ \E e \in Emitters : EmitConnected(e)
    \/ \E i \in 1..MaxSockets : SocketCloses(i)
    \/ \E i \in 1..MaxSockets : ListenerConnected(i)
    \/ Disconnect

ClientSpec == Init /\ [][ClientNext]_vars

ConnNext ==
    \/ RpcCreate
    \/ RpcOnDisconnected
    \/ RpcOnMessage
    \/ RpcEmitMessage
    \/ RpcDisconnect

ConnSpec == Init /\ [][ConnNext]_vars

BusNext ==
    \/ BusInit
    \/ SubscribeReturns
    \/ \E h \in RemoteHandlers : On(<<"e">>, h)
    \/ \E h \in LocalHandlers : OnLocal(<<"e">>, h)
    \/ \E ev \in BusEvents, data \in BusPayloads : Emit(ev, data)
    \/ \E ev \in BusEvents : EmitLocal(ev, PyDict(<<"k">>))
    \/ \E msg \in ForeignMessages : ForeignPublish(msg)
    \/ Deliver
    \/ BusStop

BusSpec == BusFresh /\ [][BusNext]_vars

\* the federated bus with once() and once_local() handlers
OnceNext ==
    \/ BusInit
    \/ SubscribeReturns
    \/ \E h \in OnceRemote : Once(<<"e">>, h)
    \/ \E h \in OnceLocal : OnceLocalCall(<<"e">>, h)
    \/ Emit(<<"e">>, PyDict(<<"k">>))
    \/ EmitLocal(<<"e">>, PyDict(<<"k">>))
    \/ Deliver

OnceSpec == BusFresh /\ [][OnceNext]_vars

CoreNext ==
    \/ \E service \in ServiceDicts : RegisterPublicService(service)
    \/ StoreInit
    \/ RegisterPublicWorkspace
    \/ GetPublicInterface
    \/ RegisterNextService
    \/ BecomeReady

CoreSpec == CoreFresh /\ [][CoreNext]_vars

\* ------------------------------------------------- claims on the Connection
\* reading a frame back, independently of emit_message
HeaderOf(frame) ==
    [i \in 1..frame[1].n |-> <<frame[2 * i], frame[2 * i + 1]>>]
AfterHeader(frame) == SubSeq(frame, 2 + 2 * frame[1].n, Len(frame))
Field(frame, name) ==
    LET hdr == HeaderOf(frame) IN
    hdr[CHOOSE i \in 1..Len(hdr) : hdr[i][1] = Key(name)][2]
HasField(frame, name) ==
    \E i \in 1..frame[1].n : frame[2 * i] = Key(name)
Accepted == lastCall.op = "emit_message" /\ lastCall.result = "ok"
LastPublished == published[Len(published)]
Normalized(W, to) == IF "/" \in {to[i] : i \in 1..Len(to)} THEN to ELSE W \o <<"/">> \o to
HubKeys == {Key("to"), Key("from"), Key("ws"), Key("user")}

\* the user a Connection was constructed for
ConstructedFor(c) == IF c = "rpc" THEN [RootUser EXCEPT !.id = <<"ua">>] ELSE user[c]

\* C1: every frame emit_message accepts on a Connection bound to (W, C) is
\* published on channel `{T'}:msg`, T' being the inbound `to` when it holds a
\* '/' and `W/to` otherwise, with to = T', from = `W/C`, ws = W (the workspace
\* part of T' when W is `*`) and user = the snapshot taken at construction,
\* whatever from / ws / user the sender wrote.
C1_RewriteAndChannel ==
    Accepted =>
        LET conn == conns[lastCall.conn]
            W == conn.workspace
            T == Normalized(W, Field(lastCall.data, "to").v)
            out == LastPublished
        IN /\ Len(published) > 0
           /\ out.channel = T \o <<":msg">>
           /\ Field(out.data, "to") = StrTok(T)
           /\ Field(out.data, "from") = StrTok(W \o <<"/">> \o conn.client_id)
           /\ Field(out.data, "ws") = StrTok(IF W = <<"*">> THEN SplitHead(T) ELSE W)
           /\ Field(out.data, "user") = UserTok(ConstructedFor(lastCall.conn))

\* an accepted frame whose sender forged from / ws / user, on a `*` Connection
C1_Witness ==
    /\ Accepted
    /\ HasField(lastCall.data, "from")
    /\ Field(lastCall.data, "from") # Field(LastPublished.data, "from")
    /\ conns[lastCall.conn].workspace = <<"*">>
    /\ Field(LastPublished.data, "ws") = StrTok(<<"v">>)

\* C2: emit_message changes nothing but the header keys to / from / ws /
\* user: every other inbound key keeps its value, no other key appears, and
\* the bytes after the header are those of the inbound frame, in order.
C2_OnlyHubKeysChange ==
    Accepted =>
        LET inh == HeaderOf(lastCall.data)
            outh == HeaderOf(LastPublished.data)
        IN /\ \A i \in 1..Len(inh) :
                  inh[i][1] \notin HubKeys => \E j \in 1..Len(outh) : outh[j] = inh[i]
           /\ \A j \in 1..Len(outh) :
                  outh[j][1] \notin HubKeys => \E i \in 1..Len(inh) : inh[i] = outh[j]
           /\ AfterHeader(LastPublished.data) = AfterHeader(lastCall.data)

\* an accepted frame with an unknown header key and a non-empty tail
C2_Witness ==
    /\ Accepted
    /\ HasField(lastCall.data, "type")
    /\ Field(LastPublished.data, "type") = StrTok(<<"method">>)
    /\ AfterHeader(LastPublished.data) = MapTail

\* C4: once disconnect() has been called on a Connection, every later
\* emit_message on it fails with the closed-connection error and publishes
\* nothing, whatever the frame.
C4_ClosedRejectsEmit ==
    [][\A c \in ConnIds :
          /\ (lastCall'.op = "disconnect" /\ lastCall'.conn = c) => conns'[c].stop
          /\ conns[c].stop =>
                /\ conns'[c].stop
                /\ (lastCall'.op = "emit_message" /\ lastCall'.conn = c)
                      => (lastCall'.result = "closed" /\ published' = published)]_vars

\* a well-formed frame refused because the Connection was disconnected
C4_Witness ==
    /\ lastCall.op = "emit_message"
    /\ lastCall.result = "closed"
    /\ lastCall.data \in GoodFrames

\* C5 (as claimed): however many times disconnect() is called, a registered
\* disconnection handler has run at most once.
C5_HandlerRunsOnce == \A c \in ConnIds : disconnected_calls[c] <= 1

\* C6 (as claimed): after disconnect() returns, nothing is subscribed on the
\* Connection's direct channel nor on its broadcast channel.
C6_NoSubscriptionLeft ==
    lastCall.op = "disconnect" =>
        LET conn == conns[lastCall.conn] IN
        /\ DirectChannel(conn) \notin DOMAIN callbacks
        /\ BroadcastChannel(conn) \notin DOMAIN callbacks


\* -------------------------------------------------- claims on the handshake
NoToken(h) ==
    /\ req[h].json /\ ~req[h].legacy
    /\ req[h].token = None
    /\ ~req[h].reconnection_token.present
    /\ req[h].client_id # None
Completed(h) == transport[h].sent # <<>> /\ transport[h].sent[1].success
PastPermission == {"client_exists", "ping", "delete_stale", "establish", "loop"}

\* C3 (as claimed): at no instant are two Connections bound to the same
\* (workspace, client id) both active.
C3_AtMostOneActive ==
    \A a, b \in Hs :
        (a # b /\ Active(a) /\ Active(b)) =>
            <<conns[a].workspace, conns[a].client_id>>
                # <<conns[b].workspace, conns[b].client_id>>

\* C7: a handshake that presents neither token nor reconnection token never
\* gets past the permission check, and never completes, with a workspace
\* other than the id of its (anonymous) user.
C7_AnonymousOwnWorkspaceOnly ==
    \A h \in Hs :
        NoToken(h) =>
            /\ pc[h] \in PastPermission => (user[h].is_anonymous /\ wsName[h] = user[h].id)
            /\ Completed(h) =>
                  /\ transport[h].sent[1].workspace = user[h].id
                  /\ conns[h].workspace = user[h].id
            /\ conns[h].made => conns[h].workspace = user[h].id

\* an anonymous connect naming user uA's existing workspace has been refused
C7_Witness ==
    \E h \in Hs :
        /\ NoToken(h)
        /\ req[h].workspace = <<"uA">>
        /\ <<"uA">> \in DOMAIN workspaces
        /\ user[h].is_anonymous /\ user[h].id # <<"uA">>
        /\ pc[h] = "returned"
        /\ ~conns[h].made
        /\ transport[h].sent = <<ErrorFrame(ErrorPrefix \o PermissionDenied(<<"uA">>))>>

\* C8 (as claimed): no Connection is constructed, and no handshake completes,
\* for a user whose id is `root`.
C8_RootNeverConnects ==
    \A h \in Hs : user[h].id = <<"root">> => (~conns[h].made /\ ~Completed(h))

\* C9 (as claimed): a handshake with no token that names a workspace W other
\* than the synthesized user's id ends with close code 1011 and the single
\* error frame {"error": "Permission denied for workspace: W", "success": false}.
C9_PermissionDeniedFrame ==
    \A h \in Hs :
        ( /\ NoToken(h)
          /\ req[h].workspace # None
          /\ req[h].workspace # user[h].id
          /\ pc[h] = "returned" ) =>
            /\ transport[h].close_code = WS_1011_INTERNAL_ERROR
            /\ transport[h].sent = <<ErrorFrame(PermissionDenied(req[h].workspace))>>

\* C10: an absent workspace defaults to user.id; a workspace found missing is
\* registered exactly when it equals user.id, with persistent = not anonymous
\* and no temporary-test-user role, read_only = is_anonymous and
\* owners = [user.id]; when it is missing and differs from user.id the
\* handshake fails and no workspace is created.
C10_Provisioning ==
    [][/\ \A h \in Hs :
            /\ ( /\ pc[h] = "idle" /\ pc'[h] = "workspace_exists"
                 /\ req'[h].workspace = None
                 /\ ~req'[h].reconnection_token.present )
                  => wsName'[h] = user'[h].id
            /\ ( /\ pc[h] = "workspace_exists" /\ pc'[h] # "workspace_exists"
                 /\ wsName[h] \notin DOMAIN workspaces )
                  => IF wsName[h] = user[h].id
                     THEN pc'[h] = "register_workspace"
                     ELSE /\ pc'[h] = "returned"
                          /\ ~transport'[h].sent[1].success
                          /\ workspaces' = workspaces
            /\ ( /\ pc[h] = "register_workspace" /\ pc'[h] # "register_workspace"
                 /\ wsName[h] \notin DOMAIN workspaces )
                  => wsName[h] \in DOMAIN workspaces'
       /\ \A n \in DOMAIN workspaces' \ DOMAIN workspaces :
            \E h \in Hs :
                /\ pc[h] = "register_workspace"
                /\ wsName[h] = n /\ user[h].id = n
                /\ workspaces'[n].persistent
                      = (~user[h].is_anonymous
                            /\ "temporary-test-user" \notin user[h].roles)
                /\ workspaces'[n].read_only = user[h].is_anonymous
                /\ workspaces'[n].owners = <<user[h].id>>]_vars

\* a temporary test user's own workspace was created non-persistent, while a
\* handshake naming the missing workspace `test` failed and created nothing
C10_Witness ==
    /\ <<"uT">> \in DOMAIN workspaces
    /\ ~workspaces[<<"uT">>].persistent
    /\ ~workspaces[<<"uT">>].read_only
    /\ <<"test">> \notin DOMAIN workspaces
    /\ \E h \in Hs :
          /\ req[h].workspace = <<"test">>
          /\ pc[h] = "returned"
          /\ transport[h].sent = <<ErrorFrame(ErrorPrefix \o OwnWorkspaceOnly)>>

\* the last frame the hub wrote to a transport
LastSent(h) == transport[h].sent[Len(transport[h].sent)]

\* C11: when (client_id, workspace) is in the store and the existing client
\* answers the probe with `pong`, the handshake is rejected with a reason
\* containing `Client already exists and is active`, the existing client
\* stays in the store, and no Connection is ever constructed for the newcomer.
C11_ActiveDuplicateRejected ==
    [][\A h \in Hs :
          /\ (pc[h] = "ping" /\ pc'[h] # "ping" /\ probe'[h] = "pong") =>
                /\ pc'[h] = "returned"
                /\ Len(transport'[h].sent) = 1
                /\ ~transport'[h].sent[1].success
                /\ ContainsSub(transport'[h].sent[1].error,
                               <<"Client already exists and is active: ">>)
                /\ clients' = clients
                /\ <<wsName[h], req[h].client_id>> \in clients'
          /\ probe[h] = "pong" => (~conns'[h].made /\ pc'[h] = "returned")]_vars

\* a newcomer was turned away while the first client of (public, k) is connected
C11_Witness ==
    \E h \in Hs :
        /\ probe[h] = "pong"
        /\ pc[h] = "returned"
        /\ ~conns[h].made
        /\ <<wsName[h], req[h].client_id>> \in clients
        /\ \E o \in Hs \ {h} : Active(o) /\ conns[o].client_id = req[h].client_id
        /\ LastSent(h) = ErrorFrame(ErrorPrefix \o ClientActive(wsName[h], req[h].client_id))

\* C12: when (client_id, workspace) is in the store and the probe gets no
\* `pong`, the stale client is deleted from the store and the handshake's
\* remaining steps cannot fail: its next step constructs the Connection and,
\* unless the newcomer's own transport is gone, sends a success reply for the
\* same (workspace, client_id).
C12_StaleClientReplaced ==
    [][\A h \in Hs :
          /\ (pc[h] = "ping" /\ pc'[h] # "ping" /\ probe'[h] # "pong") =>
                 pc'[h] = "delete_stale"
          /\ (pc[h] = "delete_stale" /\ pc'[h] # "delete_stale") =>
                 /\ <<wsName[h], req[h].client_id>> \notin clients'
                 /\ pc'[h] = "establish"
          /\ ( /\ probe[h] = "no_pong" /\ pc[h] = "establish" /\ pc'[h] # "establish"
               /\ transport'[h].open ) =>
                 /\ conns'[h].made
                 /\ transport'[h].sent =
                        <<SuccessFrame(wsName[h], req[h].client_id, user[h])>>
                 /\ transport'[h].sent[1].success
                 /\ pc'[h] \in {"loop", "returned"}]_vars

\* B took over (public, k) from a client whose transport is gone
C12_Witness ==
    \E h \in Hs :
        /\ probe[h] = "no_pong"
        /\ Completed(h)
        /\ Active(h)
        /\ \E o \in Hs \ {h} :
              /\ conns[o].made
              /\ conns[o].workspace = conns[h].workspace
              /\ conns[o].client_id = conns[h].client_id
              /\ ~transport[o].open

\* a first message carrying a reconnection token that verifies
Reconnecting(h) ==
    /\ pc[h] # "idle"
    /\ req[h].json /\ ~req[h].legacy
    /\ req[h].reconnection_token.present
    /\ req[h].reconnection_token.valid

\* C13: with a reconnection token that verifies to (user, ws', cid'), the
\* handshake fails when the payload client_id differs from cid' or a payload
\* workspace is present and differs from ws'; otherwise the user and the
\* workspace of every later step are those of the token.
C13_ReconnectionTokenBinds ==
    \A h \in Hs :
        Reconnecting(h) =>
            LET t == req[h].reconnection_token IN
            IF \/ req[h].client_id # t.cid
               \/ req[h].workspace # None /\ req[h].workspace # t.ws
            THEN /\ pc[h] = "returned"
                 /\ ~conns[h].made
                 /\ Len(transport[h].sent) = 1
                 /\ ~transport[h].sent[1].success
                 /\ wsName[h] = None /\ user[h] = NoUser
            ELSE /\ user[h] = t.user
                 /\ wsName[h] = t.ws
                 /\ conns[h].made =>
                        /\ conns[h].workspace = t.ws
                        /\ conns[h].user_info = UserTok(t.user)
                 /\ Completed(h) =>
                        /\ transport[h].sent[1].workspace = t.ws
                        /\ transport[h].sent[1].user = UserTok(t.user)

\* a reconnect presenting the token minted for client k under client id j
C13_Witness ==
    \E h \in Hs :
        /\ Reconnecting(h)
        /\ req[h].reconnection_token.cid = <<"k">>
        /\ req[h].client_id = <<"j">>
        /\ req[h].workspace = None
        /\ pc[h] = "returned"
        /\ transport[h].sent =
              <<ErrorFrame(ErrorPrefix \o AuthPrefix \o <<"Client id mismatch, disconnecting">>)>>

\* C14 (as claimed): a first message holding only a valid reconnection token
\* (no access token, no workspace, no client_id) is never refused, and its
\* success reply carries the token's workspace and client_id and a
\* reconnection token.
C14_ReconnectWithTokenOnly ==
    \A h \in Hs :
        ( /\ Reconnecting(h)
          /\ req[h].token = None
          /\ req[h].workspace = None
          /\ req[h].client_id = None ) =>
            \/ transport[h].sent = <<>>
            \/ /\ Completed(h)
               /\ transport[h].sent[1].workspace = req[h].reconnection_token.ws
               /\ transport[h].sent[1].client_id = req[h].reconnection_token.cid
               /\ transport[h].sent[1].reconnection_token.present

\* the peer was gone when the reply was to be written
ReplyFailed(h) == conns[h].made /\ transport[h].sent = <<>> /\ ~transport[h].open

\* C15 (as claimed): a handshake that got past duplicate detection has
\* constructed a Connection and sent exactly one text reply, a success reply
\* with manager_id, workspace, client_id, user and reconnection_token, whose
\* workspace and client_id are those of the Connection; with no token and no
\* workspace the reply's workspace is the synthesized user's id.  (A reply
\* that could not be written because the peer was gone is left aside.)
C15_SuccessReply ==
    \A h \in Hs :
        (pc[h] \in {"loop", "cleanup"} /\ ~ReplyFailed(h)) =>
            /\ conns[h].made
            /\ Len(transport[h].sent) = 1
            /\ LET reply == transport[h].sent[1] IN
               /\ reply.success
               /\ reply.manager_id = ManagerId
               /\ reply.workspace = conns[h].workspace
               /\ reply.client_id = conns[h].client_id
               /\ reply.user = UserTok(user[h])
               /\ reply.reconnection_token.present
               /\ (NoToken(h) /\ req[h].workspace = None) => reply.workspace = user[h].id

\* C16: a first message without client_id is answered with the error frame
\* `Missing query parameters: client_id` and close code 1003, and that is
\* all: no user is authenticated or synthesized, no workspace is looked up or
\* created, the store is not touched and no Connection is constructed.
C16_MissingClientId ==
    [][\A h \in Hs :
          /\ ( /\ pc[h] = "idle" /\ pc'[h] # "idle"
               /\ req'[h].json /\ ~req'[h].legacy
               /\ req'[h].client_id = None ) =>
                /\ pc'[h] = "returned"
                /\ transport'[h].sent = <<ErrorFrame(MissingClientId)>>
                /\ transport'[h].close_code = WS_1003_UNSUPPORTED_DATA
                /\ user'[h] = NoUser /\ wsName'[h] = None
                /\ anonCount' = anonCount
                /\ workspaces' = workspaces /\ clients' = clients
                /\ ~conns'[h].made
          /\ ( /\ pc[h] = "returned"
               /\ req[h].json /\ ~req[h].legacy
               /\ req[h].client_id = None ) =>
                UNCHANGED <<pc[h], transport[h], user[h], wsName[h], conns[h]>>]_vars

\* a first message with a valid token and no client_id was turned away
C16_Witness ==
    \E h \in Hs :
        /\ req[h].json /\ ~req[h].legacy
        /\ req[h].token = <<"tokA">>
        /\ req[h].client_id = None
        /\ pc[h] = "returned"
        /\ transport[h].close_code = WS_1003_UNSUPPORTED_DATA
        /\ LastSent(h) = ErrorFrame(MissingClientId)

\* C17 (as claimed): when the first text frame is not a JSON handshake
\* object, the hub sends the JSON error frame, closes the transport with code
\* 1003 and runs no later handshake step.
C17_BadJsonClosed ==
    \A h \in Hs :
        (pc[h] # "idle" /\ ~req[h].legacy /\ ~req[h].json) =>
            /\ pc[h] = "returned"
            /\ user[h] = NoUser /\ ~conns[h].made
            /\ ~transport[h].open
            /\ transport[h].close_code = WS_1003_UNSUPPORTED_DATA
            /\ transport[h].sent = <<ErrorFrame(FailedToDecode)>>

\* C18 (as claimed): a transport opened with the legacy query parameters is
\* accepted, then closed with code 1008, and its client is never
\* authenticated nor given a Connection.
C18_LegacyClosed ==
    \A h \in Hs :
        (pc[h] # "idle" /\ req[h].legacy) =>
            /\ pc[h] = "returned"
            /\ user[h] = NoUser /\ ~conns[h].made
            /\ ~transport[h].open
            /\ transport[h].close_code = WS_1008_POLICY_VIOLATION

\* C19 (as claimed): on an open Connection, a frame whose `to` holds no '/'
\* and contains `workspace-manager-` is rejected with the invalid-target
\* error and nothing is published for it.
C19_ManagerTargetRejected ==
    ( /\ lastCall.op = "emit_message"
      /\ ~conns[lastCall.conn].stop
      /\ lastCall.data \in GoodFrames
      /\ ~Contains(Field(lastCall.data, "to").v, "/")
      /\ Contains(Field(lastCall.data, "to").v, "workspace-manager-") ) =>
        lastCall.result = "invalid_target"

\* C20 (as claimed): a frame a client of workspace w sends to
\* `*/workspace-manager-X` is accepted, and reaches every subscribed
\* Connection of workspace w through that Connection's `w/*:msg` subscription.
C20_ManagerBroadcastDelivered ==
    ( /\ lastCall.op = "emit_message"
      /\ ~conns[lastCall.conn].stop
      /\ lastCall.data \in LoopFrames
      /\ HasField(lastCall.data, "to")
      /\ Field(lastCall.data, "to") = StrTok(<<"*", "/", "workspace-manager-", "X">>) ) =>
        /\ lastCall.result = "ok"
        /\ \A o \in Hs :
              (Active(o) /\ conns[o].workspace = conns[lastCall.conn].workspace) =>
                  /\ LastPublished.channel = BroadcastChannel(conns[o])
                  /\ SendBytes(o) \in Receivers(callbacks, LastPublished.channel)

\* C21 (as claimed): a frame that emit_message rejects on an open Connection
\* aborts that frame only: the frame loop goes on, the Connection stays
\* subscribed and its client stays in the store.
C21_RejectedFrameOnly ==
    [][\A h \in Hs :
          ( /\ pc[h] = "loop"
            /\ lastCall'.op = "emit_message" /\ lastCall'.conn = h
            /\ lastCall'.result \in {"unpack_error", "type_error", "invalid_target"} ) =>
              /\ pc'[h] = "loop"
              /\ Active(h)'
              /\ transport'[h] = transport[h]
              /\ clients' = clients]_vars

\* the peer closed an established connection
PeerClosed(h) ==
    /\ Completed(h)
    /\ ~transport[h].open
    /\ transport[h].close_code \in PeerCloseCodes

\* C22: when the peer closes the transport of an established connection,
\* with any close code, handle_disconnection runs and calls delete_client
\* once for it, and never again.
C22_DeleteClientOnce ==
    [][\A h \in Hs :
          /\ (pc[h] = "loop" /\ transport[h].open /\ ~transport'[h].open) =>
                 (pc'[h] = "cleanup" /\ deleted'[h].calls = 0)
          /\ (PeerClosed(h) /\ pc[h] = "cleanup" /\ pc'[h] # "cleanup") =>
                 (pc'[h] = "returned" /\ deleted'[h].calls = 1)
          /\ (PeerClosed(h) /\ pc[h] = "returned") =>
                 (deleted[h].calls = 1 /\ deleted'[h] = deleted[h])]_vars

\* a connection closed by its peer with code 1011 has been cleaned up, its
\* registered client is gone from the store
C22_Witness ==
    \E h \in Hs :
        /\ PeerClosed(h)
        /\ transport[h].close_code = WS_1011_INTERNAL_ERROR
        /\ pc[h] = "returned"
        /\ deleted[h] = [calls |-> 1, raised |-> FALSE]
        /\ <<wsName[h], req[h].client_id>> \notin clients

\* C23: when delete_client raises inside handle_disconnection the error is
\* swallowed: the coroutine returns normally, the Connection is disconnected
\* (closed flag set, its handler off both channels) and nothing is written to
\* the transport.
C23_CleanupErrorSwallowed ==
    [][\A h \in Hs :
          (pc[h] = "cleanup" /\ pc'[h] # "cleanup" /\ deleted'[h].raised) =>
              /\ pc'[h] = "returned"
              /\ transport'[h] = transport[h]
              /\ clients' = clients
              /\ conns[h].made =>
                    /\ conns'[h].stop
                    /\ ~Subscribed(callbacks', DirectChannel(conns[h]), SendBytes(h))
                    /\ ~Subscribed(callbacks', BroadcastChannel(conns[h]), SendBytes(h))]_vars

\* delete_client raised for a registered client: it stays in the store, the
\* Connection is closed all the same
C23_Witness ==
    \E h \in Hs :
        /\ deleted[h].raised
        /\ pc[h] = "returned"
        /\ <<wsName[h], req[h].client_id>> \in clients
        /\ conns[h].made /\ conns[h].stop
        /\ Len(transport[h].sent) = 1 /\ transport[h].sent[1].success

\* C24: a Connection constructed by a handshake whose coroutine has ended,
\* by whatever path, is disconnected: closed flag set, its handler off its
\* direct and its broadcast channel.
C24_ConnectionReleased ==
    \A h \in Hs :
        (conns[h].made /\ pc[h] = "returned") =>
            /\ conns[h].stop
            /\ conns[h].handle_message = NoHandler
            /\ ~Subscribed(callbacks, DirectChannel(conns[h]), SendBytes(h))
            /\ ~Subscribed(callbacks, BroadcastChannel(conns[h]), SendBytes(h))

\* one Connection ended because the reply could not be sent, the other
\* because the server was stopped
C24_Witness ==
    \E h, o \in Hs :
        /\ h # o
        /\ pc[h] = "returned" /\ pc[o] = "returned"
        /\ ReplyFailed(h) /\ conns[h].stop
        /\ serverStop /\ Completed(o) /\ transport[o].open /\ conns[o].stop

\* C25 (as claimed): between construction and disconnect, whatever
\* on_message calls were made, at most one handler is subscribed on the
\* Connection's direct channel and at most one on its broadcast channel.
C25_OneSubscriptionPair ==
    (conns["rpc"].made /\ ~conns["rpc"].stop) =>
        /\ Registrations(callbacks, DirectChannel(conns["rpc"])) <= 1
        /\ Registrations(callbacks, BroadcastChannel(conns["rpc"])) <= 1

\* the kind prefix the payload shape stands for
KindOf(data) ==
    IF data.kind = "dict" THEN "d:" ELSE IF data.kind = "str" THEN "s:" ELSE "b:"

\* C26 (as claimed): an emit with a map, string or bytes payload dispatches
\* the event exactly once on the local bus and publishes exactly one broker
\* message, on the channel event:<kind>:<event> of the payload's kind.
C26_EmitDispatchesAndPublishes ==
    (busLast.op = "emit" /\ busLast.data.kind \in {"dict", "str", "bytes"}) =>
        /\ busLast.local = <<[event |-> busLast.event, payload |-> busLast.data]>>
        /\ Len(busLast.published) = 1
        /\ busLast.published[1].channel = ChannelOf(KindOf(busLast.data), busLast.event)

\* C27 (as claimed): a message received on event:<kind>:<name> with kind b, s
\* or d gives exactly one dispatch of <name> on the remote bus, with the raw
\* bytes, the UTF-8 decoded string or the parsed JSON object as payload; a
\* message on any other event: channel gives no dispatch.
C27_ReceivedDispatchedOnce ==
    busLast.op = "deliver" =>
        LET msg == busLast.msg
            name == SubSeq(msg.channel, 3, Len(msg.channel))
            one == /\ Len(busLast.dispatched) = 1
                   /\ busLast.dispatched[1].event = name
            pay == busLast.dispatched[1].payload
        IN IF StartsWithKind(msg.channel, "b:")
           THEN one /\ pay = PyBytes(msg.data)
           ELSE IF StartsWithKind(msg.channel, "s:")
           THEN one /\ pay.kind = "str" /\ Utf8Encode(pay.v) = msg.data
           ELSE IF StartsWithKind(msg.channel, "d:")
           THEN one /\ pay.kind = "dict" /\ Utf8Encode(JsonDumps(pay)) = msg.data
           ELSE busLast.dispatched = <<>>

\* C28: a handler registered with on() is invoked only for broker messages,
\* never by emit or emit_local; a handler registered with on_local() is
\* invoked only by emit or emit_local, never for a broker message.
C28_HandlersSeparated ==
    \A i \in invoked :
        /\ i.handler \in RemoteHandlers => i.via = "broker"
        /\ i.handler \in LocalHandlers => i.via \in {"emit", "emit_local"}

\* both kinds of handler are registered on the same event and each has been
\* invoked, after an emit that reached the broker and came back
C28_Witness ==
    /\ \E h \in RemoteHandlers :
          Subscribed(callbacks, <<"e">>, h) /\ [handler |-> h, via |-> "broker"] \in invoked
    /\ \E h \in LocalHandlers :
          /\ Subscribed(local_callbacks, <<"e">>, h)
          /\ [handler |-> h, via |-> "emit"] \in invoked
          /\ [handler |-> h, via |-> "emit_local"] \in invoked

\* C29 (as claimed): a publisher never resolves the readiness future: an emit
\* or emit_local leaves it as it found it, and on an unresolved future does
\* not go on to dispatch or publish.
C29_PublisherLeavesReadiness ==
    [][((\E ev \in BusEvents, data \in BusPayloads : Emit(ev, data))
          \/ (\E ev \in BusEvents : EmitLocal(ev, PyDict(<<"k">>))))
         => (ready' = ready /\ ready # "pending")]_vars

\* C30: whenever is_ready() is true, the public workspace is registered as
\* persistent, read-only and owned by root, every service queued with
\* register_public_service is registered in it, and a
\* register_public_service call made when ready was refused.
C30_ReadyMeansPublicSetUp ==
    is_ready =>
        /\ workspace_exists(workspaces, <<"public">>)
        /\ workspaces[<<"public">>].persistent
        /\ workspaces[<<"public">>].read_only
        /\ workspaces[<<"public">>].owners = << <<"root">> >>
        /\ \A i \in 1..Len(public_services) : public_services[i] \in registered
        /\ (coreLast.op = "register_public_service" /\ coreLast.ready)
              => coreLast.result = "AssertionError"

\* init() completed with two services queued and registered, and a later
\* register_public_service was refused
C30_Witness ==
    /\ is_ready
    /\ corePc = At("done", 2)
    /\ Len(public_services) = 2
    /\ coreLast.op = "register_public_service" /\ coreLast.ready
    /\ coreLast.result = "AssertionError"

\* C31 (as claimed): a handler registered with once() or once_local() is
\* invoked at most once over any sequence of deliveries of its event, also
\* when it raises on its first invocation.
C31_OnceAtMostOnce ==
    \A h \in OnceWrappers : once_calls[h] <= 1

\* C32 (as claimed): the subscriber loop survives bad input: it is still
\* alive after a broker message whose payload cannot be decoded for its
\* kind, and after a broker subscription that completed behind an emit, so
\* that later well-formed messages are still dispatched.
C32_SubscriberSurvives ==
    /\ (busLast.op = "deliver" /\ DecodeFromBroker(busLast.msg).raised)
          => subscriber.pc # "dead"
    /\ (busLast.op = "subscribed" /\ ~busLast.raised) => subscriber.pc # "dead"

\* C33 (as claimed): whenever the frame loop of an established connection
\* has exited, also when it exited on the server's stop flag, delete_client
\* has been called for that connection.
C33_LoopExitDeletesClient ==
    \A h \in Hs :
        (Completed(h) /\ pc[h] = "returned") => deleted[h].calls >= 1

\* C34: the success reply is the first frame written to the transport of an
\* established connection: a binary frame delivered from the Connection's
\* direct or broadcast channel is never written before it.
C34_SuccessReplyFirst ==
    \A h \in Hs : \A i \in 1..Len(transport[h].sent) :
        transport[h].sent[i].binary =>
            i > 1 /\ transport[h].sent[1].success /\ ~transport[h].sent[1].binary

\* a frame from another publisher was written right after the success reply
C34_Witness ==
    \E h \in Hs :
        /\ Len(transport[h].sent) = 2
        /\ transport[h].sent[1].success
        /\ transport[h].sent[2] = BytesFrame

AlreadyExists(h) ==
    /\ transport[h].sent # <<>>
    /\ ~transport[h].sent[1].success
    /\ ContainsSub(transport[h].sent[1].error, <<"Workspace already exists: ">>)

\* C35 (as claimed): two handshakes of the same authenticated user with
\* different client ids, both for that user's own workspace, both complete:
\* neither is turned away because the other registered the workspace first.
C35_ConcurrentOwnWorkspace ==
    \A a, b \in Hs :
        ( /\ a # b
          /\ user[a] # NoUser /\ user[a] = user[b]
          /\ req[a].client_id # req[b].client_id
          /\ wsName[a] = user[a].id /\ wsName[b] = user[b].id ) =>
            ~AlreadyExists(a) /\ ~AlreadyExists(b)

OpenSockets == {i \in 1..Len(cl_sockets) : ~cl_sockets[i].closed}
RunningListeners == {i \in 1..Len(cl_sockets) : cl_sockets[i].listener # "ended"}

\* C36 (as claimed): when only emit_message calls have acted on a
\* connection that had no open websocket (no disconnect, no websocket
\* closed), at most one websocket has been opened and at most one listener
\* started: never two open websockets or two running listeners.
C36_OneWebsocket ==
    ( /\ ~cl_disconnected
      /\ \A i \in 1..Len(cl_sockets) :
            cl_sockets[i].by = "emit" /\ ~cl_sockets[i].closed ) =>
        /\ Len(cl_sockets) <= 1
        /\ Cardinality(OpenSockets) <= 1
        /\ Cardinality(RunningListeners) <= 1

\* C37 (as claimed): once disconnect() has been called the listener never
\* opens a new websocket, however the old one closed: a websocket opened
\* after disconnect() was opened by an emit_message call.
C37_NoReopenAfterDisconnect ==
    \A i \in 1..Len(cl_sockets) :
        cl_sockets[i].after_disconnect => cl_sockets[i].by = "emit"

====
